---------------------------- MODULE Spec2Model ----------------------------
(***************************************************************************)
(* Model of the browser agent: the policy gate (security.js), the tool     *)
(* dispatcher (tools.js), the click fallback chain of BrowserController    *)
(* (browser.js) and the control loop runAgent (agent.js).                  *)
(*                                                                         *)
(* Strings that the code inspects character by character (element texts)   *)
(* are tuples of one-character strings; a Cyrillic letter is written       *)
(* "c_<latin>" and counts as one character.  Other strings are opaque.     *)
(***************************************************************************)
EXTENDS Integers, Sequences, FiniteSets, TLC

(***************************************************************************)
(* JavaScript values as they come out of JSON.parse.                       *)
(***************************************************************************)
Undefined == [t |-> "undefined", n |-> 0, half |-> FALSE, s |-> "", b |-> FALSE]
Null == [t |-> "null", n |-> 0, half |-> FALSE, s |-> "", b |-> FALSE]
Num(n) == [t |-> "number", n |-> n, half |-> FALSE, s |-> "", b |-> FALSE]
Str(s) == [t |-> "string", n |-> 0, half |-> FALSE, s |-> s, b |-> FALSE]
Bool(b) == [t |-> "boolean", n |-> 0, half |-> FALSE, s |-> "", b |-> b]

\* The number n + 1/2: the non-integers of the model.
Half(n) == [Num(n) EXCEPT !.half = TRUE]

\* Twice the number v, an integer.
Twice(v) == 2 * v.n + (IF v.half THEN 1 ELSE 0)

\* typeof v
TypeOf(v) == IF v.t = "null" THEN "object" ELSE v.t

\* Boolean(v)
Truthy(v) ==
  CASE v.t = "number" -> v.n # 0 \/ v.half
    [] v.t = "string" -> v.s # ""
    [] v.t = "boolean" -> v.b
    [] OTHER -> FALSE

\* args.<key>: a property that is absent reads as undefined
Arg(args, key) == IF key \in DOMAIN args THEN args[key] ELSE Undefined

EmptyArgs == [k \in {} |-> Undefined]

(***************************************************************************)
(* Characters and the regular expressions of DESTRUCTIVE_PATTERNS.         *)
(***************************************************************************)
UpperCase == <<"A","B","C","D","E","F","G","H","I","J","K","L","M",
               "N","O","P","Q","R","S","T","U","V","W","X","Y","Z">>
LowerCase == <<"a","b","c","d","e","f","g","h","i","j","k","l","m",
               "n","o","p","q","r","s","t","u","v","w","x","y","z">>
Digits == {"0","1","2","3","4","5","6","7","8","9"}

\* \w of a JavaScript RegExp without the u flag: [A-Za-z0-9_]
WordChars ==
  {UpperCase[k] : k \in 1..26} \cup {LowerCase[k] : k \in 1..26}
    \cup Digits \cup {"_"}

\* \s
SpaceChars == {" ", "\t", "\n"}

\* String.prototype.toLowerCase, one character
ToLowerChar(c) ==
  IF \E k \in 1..26 : UpperCase[k] = c
    THEN LowerCase[CHOOSE k \in 1..26 : UpperCase[k] = c]
    ELSE c

ToLowerCase(text) == [k \in 1..Len(text) |-> ToLowerChar(text[k])]

\* \b at position p (between text[p] and text[p+1]); outside the text counts
\* as a non-word character
IsWordAt(text, p) == p >= 1 /\ p <= Len(text) /\ text[p] \in WordChars
WordBoundary(text, p) == IsWordAt(text, p) # IsWordAt(text, p + 1)

\* An alternative of a pattern is a sequence of atoms: a character (matched
\* literally), "WS*" for \s* and "ANY*" for .*
AtomStep(atom, text, from) ==
  CASE atom = "WS*" ->
         {q \in 0..Len(text) :
            \E p \in from : p <= q /\ \A j \in (p + 1)..q : text[j] \in SpaceChars}
    [] atom = "ANY*" ->
         {q \in 0..Len(text) :
            \E p \in from : p <= q /\ \A j \in (p + 1)..q : text[j] # "\n"}
    [] OTHER ->
         {p + 1 : p \in {r \in from : r < Len(text) /\ text[r + 1] = atom}}

RECURSIVE MatchEnds(_, _, _)
MatchEnds(atoms, text, from) ==
  IF atoms = <<>> \/ from = {}
    THEN from
    ELSE MatchEnds(Tail(atoms), text, AtomStep(Head(atoms), text, from))

\* /\b(alt1|alt2|...)\b/i.test(text), for a text already in lower case
PatternTest(alternatives, text) ==
  \E k \in 1..Len(alternatives) :
    \E start \in 0..Len(text) :
      /\ WordBoundary(text, start)
      /\ \E end \in MatchEnds(alternatives[k], text, {start}) :
           WordBoundary(text, end)

DESTRUCTIVE_PATTERNS == <<
  \* /\b(pay|оплат|купи|buy)\b/i
  << <<"p","a","y">>,
     <<"c_o","c_p","c_l","c_a","c_t">>,
     <<"c_k","c_u","c_p","c_i">>,
     <<"b","u","y">> >>,
  \* /\b(checkout|оформл|place\s*order|подтвержд.*заказ)\b/i
  << <<"c","h","e","c","k","o","u","t">>,
     <<"c_o","c_f","c_o","c_r","c_m","c_l">>,
     <<"p","l","a","c","e","WS*","o","r","d","e","r">>,
     <<"c_p","c_o","c_d","c_t","c_v","c_e","c_r","c_zh","c_d","ANY*",
       "c_z","c_a","c_k","c_a","c_z">> >>,
  \* /\b(confirm\s*order|подтвердить)\b/i
  << <<"c","o","n","f","i","r","m","WS*","o","r","d","e","r">>,
     <<"c_p","c_o","c_d","c_t","c_v","c_e","c_r","c_d","c_i","c_t","c_soft">> >>,
  \* /\b(delete|удал|remove|удалить)\b/i
  << <<"d","e","l","e","t","e">>,
     <<"c_u","c_d","c_a","c_l">>,
     <<"r","e","m","o","v","e">>,
     <<"c_u","c_d","c_a","c_l","c_i","c_t","c_soft">> >>,
  \* /\b(unsubscribe|отпис)\b/i
  << <<"u","n","s","u","b","s","c","r","i","b","e">>,
     <<"c_o","c_t","c_p","c_i","c_s">> >>,
  \* /\b(cancel\s*subscription|отменить\s*подписк)\b/i
  << <<"c","a","n","c","e","l","WS*","s","u","b","s","c","r","i","p","t","i","o","n">>,
     <<"c_o","c_t","c_m","c_e","c_n","c_i","c_t","c_soft","WS*",
       "c_p","c_o","c_d","c_p","c_i","c_s","c_k">> >>,
  \* /\b(send\s*money|перевод|transfer)\b/i
  << <<"s","e","n","d","WS*","m","o","n","e","y">>,
     <<"c_p","c_e","c_r","c_e","c_v","c_o","c_d">>,
     <<"t","r","a","n","s","f","e","r">> >>,
  \* /\b(submit\s*payment|оплатить)\b/i
  << <<"s","u","b","m","i","t","WS*","p","a","y","m","e","n","t">>,
     <<"c_o","c_p","c_l","c_a","c_t","c_i","c_t","c_soft">> >>
>>

(***************************************************************************)
(* Snapshot elements.  A field the page script leaves undefined is the     *)
(* empty text here: every reader of these fields treats both alike.        *)
(***************************************************************************)
NoText == <<>>

Element(id, tagName, role, text, disabled) ==
  [id |-> id, tagName |-> tagName, role |-> role, text |-> text,
   value |-> NoText, title |-> NoText, labelText |-> NoText,
   href |-> NoText, disabled |-> disabled]

\* The integer that e.id === v compares with the ids, which are 0, 1, ...:
\* a number that is not an integer equals no id.
IdOf(v) == IF v.half THEN -1 ELSE v.n

\* snapshot.elements.find((e) => e.id === elementId), for a number elementId
FindIndex(snapshot, elementId) ==
  {k \in 1..Len(snapshot.elements) : snapshot.elements[k].id = elementId}

HasElement(snapshot, elementId) == FindIndex(snapshot, elementId) # {}

FindElement(snapshot, elementId) ==
  LET hits == FindIndex(snapshot, elementId)
  IN  snapshot.elements[CHOOSE k \in hits : \A j \in hits : k <= j]

\* [a, b, ...].filter(Boolean).join(' ')
RECURSIVE JoinNonEmpty(_)
JoinNonEmpty(texts) ==
  IF texts = <<>> THEN <<>>
  ELSE LET rest == JoinNonEmpty(Tail(texts))
       IN  IF Head(texts) = <<>> THEN rest
           ELSE IF rest = <<>> THEN Head(texts)
           ELSE Head(texts) \o <<" ">> \o rest

\* s.slice(0, n)
Slice(text, n) == IF Len(text) <= n THEN text ELSE SubSeq(text, 1, n)

\* s.trim()
RECURSIVE TrimLeft(_)
TrimLeft(text) ==
  IF text # <<>> /\ Head(text) \in SpaceChars THEN TrimLeft(Tail(text)) ELSE text

RECURSIVE TrimRight(_)
TrimRight(text) ==
  IF text # <<>> /\ text[Len(text)] \in SpaceChars
    THEN TrimRight(SubSeq(text, 1, Len(text) - 1))
    ELSE text

Trim(text) == TrimRight(TrimLeft(text))


(***************************************************************************)
(* The policy gate.                                                        *)
(***************************************************************************)
DESCRIPTION_MAX == 80

T_Action == <<"A","c","t","i","o","n">>
T_SensitiveAction ==
  <<"S","e","n","s","i","t","i","v","e"," ","a","c","t","i","o","n">>

\* el.text || el.value || 'Action'
DescriptionSource(el) ==
  IF el.text # NoText THEN el.text
  ELSE IF el.value # NoText THEN el.value
  ELSE T_Action

\* the for loop over DESTRUCTIVE_PATTERNS: pattern.test(text) for some pattern
MatchesDestructivePattern(text) ==
  \E k \in 1..Len(DESTRUCTIVE_PATTERNS) : PatternTest(DESTRUCTIVE_PATTERNS[k], text)

NotDestructive == [destructive |-> FALSE, description |-> NoText]

\* A gate that classifies by the tool name alone.
checkDestructiveAction_AnyTool(toolName, args, snapshot) ==
  IF toolName \in {"click_element", "navigate", "type_text"}
    THEN [destructive |-> TRUE, description |-> T_SensitiveAction]
    ELSE NotDestructive

checkDestructiveAction(toolName, args, snapshot) ==
  IF toolName # "click_element" THEN NotDestructive
  ELSE LET elementId == Arg(args, "element_id")
       IN  IF TypeOf(elementId) # "number" THEN NotDestructive
           ELSE IF ~HasElement(snapshot, IdOf(elementId)) THEN NotDestructive
           ELSE LET el == FindElement(snapshot, IdOf(elementId))
                    text == ToLowerCase(JoinNonEmpty(
                              <<el.text, el.value, el.title, el.labelText>>))
                IN  IF text = <<>> THEN NotDestructive
                    ELSE IF MatchesDestructivePattern(text)
                      THEN LET description ==
                                 Slice(DescriptionSource(el), DESCRIPTION_MAX)
                           IN  [destructive |-> TRUE,
                                description |->
                                  IF Trim(description) # <<>>
                                    THEN Trim(description)
                                    ELSE T_SensitiveAction]
                      ELSE NotDestructive

(***************************************************************************)
(* The gate as a procedure over the objects it touches: the arguments, the *)
(* snapshot and the RegExp objects of DESTRUCTIVE_PATTERNS, each of which  *)
(* carries a lastIndex.  RegExp.prototype.test reads and writes lastIndex  *)
(* only under the g or y flag; every pattern of the table has the flags    *)
(* "i".                                                                    *)
(***************************************************************************)
\* The table compiled with the g flag.
PATTERN_FLAGS_Global == {"g", "i"}

PATTERN_FLAGS == {"i"}

\* the matches of /\b(...)\b/ in text that start at or after `from`
MatchesFrom(alternatives, text, from) ==
  {m \in (from..Len(text)) \X (0..Len(text)) :
     /\ WordBoundary(text, m[1])
     /\ WordBoundary(text, m[2])
     /\ \E k \in 1..Len(alternatives) : m[2] \in MatchEnds(alternatives[k], text, {m[1]})}

\* pattern.test(text): whether it matched, and lastIndex afterwards
RegExpTest(alternatives, flags, lastIndex, text) ==
  IF flags \cap {"g", "y"} = {}
    THEN [matched |-> PatternTest(alternatives, text), lastIndex |-> lastIndex]
    ELSE LET found == MatchesFrom(alternatives, text, lastIndex)
         IN  IF found = {}
               THEN [matched |-> FALSE, lastIndex |-> 0]
               ELSE LET first == CHOOSE m \in found : \A o \in found : m[1] <= o[1]
                        ends == {m[2] : m \in {o \in found : o[1] = first[1]}}
                    IN  [matched |-> TRUE,
                         lastIndex |-> CHOOSE e \in ends : \A o \in ends : e >= o]

\* for (const pattern of DESTRUCTIVE_PATTERNS) if (pattern.test(text)) return
RECURSIVE TestPatterns(_, _, _)
TestPatterns(k, text, lastIndexes) ==
  IF k > Len(DESTRUCTIVE_PATTERNS)
    THEN [matched |-> FALSE, lastIndexes |-> lastIndexes]
    ELSE LET t == RegExpTest(DESTRUCTIVE_PATTERNS[k], PATTERN_FLAGS, lastIndexes[k], text)
             after == [lastIndexes EXCEPT ![k] = t.lastIndex]
         IN  IF t.matched THEN [matched |-> TRUE, lastIndexes |-> after]
                          ELSE TestPatterns(k + 1, text, after)

FreshPatterns == [k \in 1..Len(DESTRUCTIVE_PATTERNS) |-> 0]

\* One call: the verdict, and the objects as the call leaves them.
GateRun(toolName, args, snapshot, lastIndexes) ==
  LET untouched(verdict) ==
        [verdict |-> verdict, args |-> args, snapshot |-> snapshot,
         lastIndexes |-> lastIndexes]
      elementId == Arg(args, "element_id")
  IN  IF toolName # "click_element" THEN untouched(NotDestructive)
      ELSE IF TypeOf(elementId) # "number" THEN untouched(NotDestructive)
      ELSE IF ~HasElement(snapshot, IdOf(elementId)) THEN untouched(NotDestructive)
      ELSE LET el == FindElement(snapshot, IdOf(elementId))
               text == ToLowerCase(JoinNonEmpty(
                         <<el.text, el.value, el.title, el.labelText>>))
               tested == TestPatterns(1, text, lastIndexes)
               description == Slice(DescriptionSource(el), DESCRIPTION_MAX)
           IN  IF text = <<>> THEN untouched(NotDestructive)
               ELSE [verdict |->
                       IF tested.matched
                         THEN [destructive |-> TRUE,
                               description |->
                                 IF Trim(description) # <<>> THEN Trim(description)
                                                             ELSE T_SensitiveAction]
                         ELSE NotDestructive,
                     args |-> args, snapshot |-> snapshot,
                     lastIndexes |-> tested.lastIndexes]

(***************************************************************************)
(* Pages the browser may show.  Ids are dense from 1, as the page script   *)
(* assigns them.                                                           *)
(***************************************************************************)
T_DeleteAccount == <<"D","e","l","e","t","e"," ","a","c","c","o","u","n","t">>
T_Cancel == <<"C","a","n","c","e","l">>
T_Pay == <<"P","a","y">>
T_Repay == <<"R","e","p","a","y">>
T_Udalit == <<"c_u","c_d","c_a","c_l","c_i","c_t","c_soft">>

SnapshotA ==
  [elements |-> <<
     Element(1, "button", "button", T_DeleteAccount, FALSE),
     Element(2, "button", "button", T_Cancel, FALSE),
     Element(3, "button", "button", T_Pay, TRUE),
     Element(4, "div", "button", T_Repay, FALSE) >>]

SnapshotB ==
  [elements |-> <<
     Element(1, "a", "a", T_Cancel, FALSE),
     Element(2, "div", "button", T_Pay, FALSE),
     Element(3, "button", "button", T_Udalit, FALSE) >>]

Snapshots == {SnapshotA, SnapshotB}

NoSnapshot == [elements |-> <<>>]

\* Texts for the gate: case, spacing, words that only contain a keyword,
\* the fields of the text surface, a text longer than the description.
T_PayNow == <<"P","A","Y"," ","N","O","W">>
T_PlaceOrders == <<"p","l","a","c","e","o","r","d","e","r","s">>
T_PlaceOrder == <<"P","l","a","c","e"," "," ","o","r","d","e","r","!">>
T_Buy == <<"B","u","y">>
T_Home == <<"H","o","m","e">>
T_RemoveItem == <<"r","e","m","o","v","e"," ","i","t","e","m">>
T_Blank == <<" "," "," ">>
T_Unsubscribe == <<"U","n","s","u","b","s","c","r","i","b","e">>
T_Oplatit == <<"c_o","c_p","c_l","c_a","c_t","c_i","c_t","c_soft">>
T_Podtverdit ==
  <<"c_p","c_o","c_d","c_t","c_v","c_e","c_r","c_d","c_i","c_t","c_soft">>
T_DigitsUdal == <<"1","c_u","c_d","c_a","c_l","1">>
LONG_TEXT == 84
T_Long ==
  [k \in 1..LONG_TEXT |->
     IF k <= Len(T_DeleteAccount) THEN T_DeleteAccount[k]
     ELSE IF k % 10 = 0 THEN " " ELSE "x"]

PageWords ==
  [elements |-> <<
     Element(1, "button", "button", T_PayNow, FALSE),
     Element(2, "button", "button", T_PlaceOrders, FALSE),
     Element(3, "button", "button", T_PlaceOrder, FALSE),
     Element(4, "button", "button", T_Udalit, FALSE) >>]

PageFields ==
  [elements |-> <<
     [Element(1, "input", "input", NoText, FALSE) EXCEPT !.value = T_Buy],
     [Element(2, "a", "a", T_Home, FALSE) EXCEPT !.title = T_RemoveItem],
     [Element(3, "button", "button", T_Blank, FALSE) EXCEPT !.labelText = T_Unsubscribe],
     Element(4, "button", "button", NoText, FALSE) >>]

PageLong ==
  [elements |-> <<
     Element(1, "button", "button", T_Long, FALSE),
     Element(2, "button", "button", T_Oplatit, FALSE),
     Element(3, "button", "button", T_DigitsUdal, FALSE),
     Element(4, "button", "button", T_Podtverdit, FALSE) >>]

\* Disabled form controls.
PageForm ==
  [elements |-> <<
     Element(1, "input", "input", NoText, TRUE),
     Element(2, "select", "select", NoText, TRUE),
     Element(3, "input", "checkbox", NoText, TRUE),
     Element(4, "input", "input", NoText, FALSE) >>]

GatePages == {PageWords, PageFields, PageLong, PageForm}

(***************************************************************************)
(* BrowserController.  The controller's state is the number of open pages  *)
(* and the index of the active one.  Every call into the page may fail:    *)
(* `tape` gives, in call order, whether the k-th call made by the          *)
(* operation succeeds.  An operation yields the calls it made (trace),     *)
(* whether it returned (ok) or threw (error holds the message), and the    *)
(* controller's state afterwards.                                          *)
(***************************************************************************)
Returned(trace, b) == [ok |-> TRUE, error |-> "", trace |-> trace, browser |-> b]
Threw(error, trace, b) == [ok |-> FALSE, error |-> error, trace |-> trace, browser |-> b]

Tapes == [1..8 -> BOOLEAN]

\* The tapes that differ in their first n entries: an operation that makes at
\* most n calls reads no further.
TapesOfLength(n) ==
  {[k \in 1..8 |-> IF k <= n THEN t[k] ELSE TRUE] : t \in [1..n -> BOOLEAN]}

E_NotFound == "Element id not found in snapshot: "
E_Page == "page error"
E_TabIndex == "Invalid tab index: "
E_NotLaunched == "Browser not launched"
E_TypeError == "Cannot read properties of undefined (reading 'bringToFront')"

\* The value of browser.page when this.#page is undefined.
NoPage == -1

\* Tier 3 tried before tier 2.
TierChain_Tier3First(trace, tape, b) ==
  LET t1 == Append(trace, "locator.click")
      t3 == Append(t1, "clickViaEvaluate")
      t2 == Append(t3, "locator.click.force")
  IN  IF tape[Len(t1)] THEN Returned(t1, b)
      ELSE IF tape[Len(t3)] THEN Returned(t3, b)
      ELSE IF tape[Len(t2)] THEN Returned(t2, b)
      ELSE Threw(E_Page, t2, b)

\* clickElement, the three tiers: click, forced click, script-level click
TierChain(trace, tape, b) ==
  LET t1 == Append(trace, "locator.click")
      t2 == Append(t1, "locator.click.force")
      t3 == Append(t2, "clickViaEvaluate")
  IN  IF tape[Len(t1)] THEN Returned(t1, b)
      ELSE IF tape[Len(t2)] THEN Returned(t2, b)
      ELSE IF tape[Len(t3)] THEN Returned(t3, b)
      ELSE Threw(E_Page, t3, b)

\* clickElement, the wrapper-card branch
WrapperChain(trace, tape, b) ==
  LET js == Append(trace, "clickViaEvaluate")
      iw == Append(js, "innerLink.waitFor")
      ic == Append(iw, "innerLink.click")
  IN  IF tape[Len(js)] THEN Returned(js, b)
      ELSE IF ~tape[Len(iw)] THEN TierChain(iw, tape, b)
      ELSE IF tape[Len(ic)] THEN Returned(ic, b)
      ELSE TierChain(ic, tape, b)

IsWrapper(el) == el.tagName \in {"div", "span"} /\ el.role = "button"

clickElement(snapshot, elementId, tape, b) ==
  IF ~HasElement(snapshot, elementId) THEN Threw(E_NotFound, <<>>, b)
  ELSE IF b.page = NoPage THEN Threw(E_NotLaunched, <<>>, b)
  ELSE LET el == FindElement(snapshot, elementId)
           wf == <<"locator.waitFor">>
           sc == Append(wf, "locator.scrollIntoViewIfNeeded")
       IN  IF ~tape[Len(wf)] THEN Threw(E_Page, wf, b)
           ELSE IF ~tape[Len(sc)] THEN Threw(E_Page, sc, b)
           ELSE IF IsWrapper(el) THEN WrapperChain(sc, tape, b)
           ELSE TierChain(sc, tape, b)

\* page.goto throws; a failure of waitForLoadState is swallowed
navigate(url, tape, b) ==
  LET go == <<"page.goto">>
  IN  IF b.page = NoPage THEN Threw(E_NotLaunched, <<>>, b)
      ELSE IF ~tape[Len(go)] THEN Threw(E_Page, go, b)
      ELSE Returned(Append(go, "page.waitForLoadState"), b)

\* url is undefined or a string; the new page is active as soon as it exists
newTab(url, tape, b) ==
  LET np == <<"context.newPage">>
      go == Append(np, "page.goto")
      opened == [pages |-> b.pages + 1, page |-> b.pages]
  IN  IF ~tape[Len(np)] THEN Threw(E_Page, np, b)
      ELSE IF ~Truthy(url) THEN Returned(np, opened)
      ELSE IF ~tape[Len(go)] THEN Threw(E_Page, go, opened)
      ELSE Returned(Append(go, "page.waitForLoadState"), opened)

\* tabIndex is a number.  this.#page = pages[tabIndex] is assigned before
\* bringToFront is called, and is undefined when tabIndex is no integer.
switchTab(tabIndex, tape, b) ==
  LET bf == <<"page.bringToFront">>
      switched == [b EXCEPT !.page = IF tabIndex.half THEN NoPage ELSE tabIndex.n]
  IN  IF Twice(tabIndex) < 0 \/ Twice(tabIndex) >= 2 * b.pages
        THEN Threw(E_TabIndex, <<>>, b)
      ELSE IF switched.page = NoPage THEN Threw(E_TypeError, <<>>, switched)
      ELSE IF ~tape[Len(bf)] THEN Threw(E_Page, bf, switched)
      ELSE Returned(bf, switched)

\* elementId is Null for "the focused field"
typeText(snapshot, elementId, tape, b) ==
  LET clear == <<"locator.fill.empty">>
      fill == Append(clear, "locator.fill")
      keys == <<"keyboard.type">>
  IN  IF b.page = NoPage THEN Threw(E_NotLaunched, <<>>, b)
      ELSE IF elementId = Null
        THEN IF tape[Len(keys)] THEN Returned(keys, b) ELSE Threw(E_Page, keys, b)
      ELSE IF ~HasElement(snapshot, IdOf(elementId)) THEN Threw(E_NotFound, <<>>, b)
      ELSE IF ~tape[Len(clear)] THEN Threw(E_Page, clear, b)
      ELSE IF ~tape[Len(fill)] THEN Threw(E_Page, fill, b)
      ELSE Returned(fill, b)

\* by value, and when that fails by label
selectOption(snapshot, elementId, tape, b) ==
  LET byValue == <<"locator.selectOption.value">>
      byLabel == Append(byValue, "locator.selectOption.label")
  IN  IF ~HasElement(snapshot, elementId) THEN Threw(E_NotFound, <<>>, b)
      ELSE IF b.page = NoPage THEN Threw(E_NotLaunched, <<>>, b)
      ELSE IF tape[Len(byValue)] THEN Returned(byValue, b)
      ELSE IF tape[Len(byLabel)] THEN Returned(byLabel, b)
      ELSE Threw(E_Page, byLabel, b)

setCheckbox(snapshot, elementId, checked, tape, b) ==
  LET call == <<IF checked THEN "locator.check" ELSE "locator.uncheck">>
  IN  IF ~HasElement(snapshot, elementId) THEN Threw(E_NotFound, <<>>, b)
      ELSE IF b.page = NoPage THEN Threw(E_NotLaunched, <<>>, b)
      ELSE IF tape[Len(call)] THEN Returned(call, b)
      ELSE Threw(E_Page, call, b)

scroll(tape, b) ==
  LET wheel == <<"mouse.wheel">>
  IN  IF b.page = NoPage THEN Threw(E_NotLaunched, <<>>, b)
      ELSE IF tape[Len(wheel)] THEN Returned(wheel, b)
      ELSE Threw(E_Page, wheel, b)

(***************************************************************************)
(* BrowserController.getSnapshot.  What the page does during one call is   *)
(* given by `live`: whether each tab's title() answers, whether the two    *)
(* waits for the load state end in time, how the first and the second      *)
(* page.evaluate end ("ok" or the message of the error) and what the page  *)
(* holds at each.                                                          *)
(***************************************************************************)
E_Destroyed == "Execution context was destroyed, most likely because of a navigation"
E_Closed == "Target closed"
E_Timeout == "page.evaluate: Timeout exceeded"
ReadErrors == {E_Destroyed, E_Closed, E_Timeout}

\* /Execution context was destroyed|Target closed/i.test(String(err?.message))
IsContextDestroyed(message) == message \in {E_Destroyed, E_Closed}

\* tabs: { index, url, title } per page, placeholders when title() fails
TabList(live, b) ==
  [k \in 1..b.pages |-> [index |-> k - 1, loading |-> ~live.titles[k]]]

TitleCalls(b) == [k \in 1..b.pages |-> "page.title"]

GotSnapshot(content, live, trace, b) ==
  [ok |-> TRUE, error |-> "", trace |-> trace, browser |-> b,
   snapshot |-> content, tabs |-> TabList(live, b), activeTabIndex |-> b.page]

SnapshotThrew(error, trace, b) ==
  [ok |-> FALSE, error |-> error, trace |-> trace, browser |-> b,
   snapshot |-> NoSnapshot, tabs |-> <<>>, activeTabIndex |-> b.page]

\* A retry after a failure of any class.
getSnapshot_RetriesAnyFailure(live, b) ==
  LET first == TitleCalls(b) \o <<"page.waitForLoadState", "page.evaluate">>
      second == first \o <<"delay", "page.waitForLoadState", "page.evaluate">>
  IN  IF live.reads[1] = "ok" THEN GotSnapshot(live.content[1], live, first, b)
      ELSE IF live.reads[2] = "ok" THEN GotSnapshot(live.content[2], live, second, b)
      ELSE SnapshotThrew(live.reads[2], second, b)

getSnapshot(live, b) ==
  LET first == TitleCalls(b) \o <<"page.waitForLoadState", "page.evaluate">>
      second == first \o <<"delay", "page.waitForLoadState", "page.evaluate">>
  IN  IF b.page = NoPage THEN SnapshotThrew(E_NotLaunched, <<>>, b)
      ELSE IF live.reads[1] = "ok" THEN GotSnapshot(live.content[1], live, first, b)
      ELSE IF ~IsContextDestroyed(live.reads[1])
        THEN SnapshotThrew(live.reads[1], first, b)
      ELSE IF live.reads[2] = "ok" THEN GotSnapshot(live.content[2], live, second, b)
      ELSE SnapshotThrew(live.reads[2], second, b)

(***************************************************************************)
(* The tool dispatcher.  An ActionResult is {success, message, stop,       *)
(* userQuestion}; the message is its fixed text, the value spliced into    *)
(* it, and the remediation hint appended to it.                            *)
(***************************************************************************)
ActionResult(success, text, arg, hint, stop, userQuestion) ==
  [success |-> success, message |-> [text |-> text, arg |-> arg, hint |-> hint],
   stop |-> stop, userQuestion |-> userQuestion]

Success(text, arg) == ActionResult(TRUE, text, arg, "", FALSE, Undefined)
Failure(text, arg) == ActionResult(FALSE, text, arg, "", FALSE, Undefined)
NoResult == ActionResult(FALSE, "", Undefined, "", FALSE, Undefined)

M_ClickHint == "Try scroll(down) to bring the element into view, then wait(2), then click again"
M_Disabled == "Element is disabled. Fill required fields or wait for it to become enabled, then try again."

\* What a call of executeTool does: it resolves to a result or rejects
\* (threw), after the page calls in trace and `waited` milliseconds of timer.
Resolved(result, trace, b) ==
  [threw |-> FALSE, result |-> result, trace |-> trace, browser |-> b, waited |-> 0]
Rejected(trace, b) ==
  [threw |-> TRUE, result |-> NoResult, trace |-> trace, browser |-> b, waited |-> 0]

\* Without the catch: the error of the call is rethrown.
Caught_Rethrows(call, okResult, hint) ==
  IF call.ok
    THEN Resolved(okResult, call.trace, call.browser)
    ELSE Rejected(call.trace, call.browser)

\* try { await call; return ok } catch (err) { return failure(err.message) }
Caught(call, okResult, hint) ==
  IF call.ok
    THEN Resolved(okResult, call.trace, call.browser)
    ELSE Resolved(ActionResult(FALSE, call.error, Undefined, hint, FALSE, Undefined),
                  call.trace, call.browser)

\* await call; return ok   (no handler around the call)
Uncaught(call, okResult) ==
  IF call.ok
    THEN Resolved(okResult, call.trace, call.browser)
    ELSE Rejected(call.trace, call.browser)

\* Number(v) || 2 : NaN and 0 give 2.  Numeric strings are "1".."10".
NumericStrings == <<"1", "2", "3", "4", "5", "6", "7", "8", "9", "10">>
NumberOrTwo(v) ==
  CASE v.t = "number" -> IF Twice(v) = 0 THEN Num(2) ELSE v
    [] v.t = "boolean" -> IF v.b THEN Num(1) ELSE Num(2)
    [] v.t = "string" ->
         IF \E k \in 1..10 : NumericStrings[k] = v.s
           THEN Num(CHOOSE k \in 1..10 : NumericStrings[k] = v.s)
           ELSE Num(2)
    [] OTHER -> Num(2)

\* Math.min and Math.max of two numbers
Min(a, b) == IF Twice(a) <= Twice(b) THEN a ELSE b
Max(a, b) == IF Twice(a) >= Twice(b) THEN a ELSE b

\* sec * 1000, the delay handed to setTimeout
Millis(sec) == 500 * Twice(sec)

WAIT_MIN == 1
WAIT_MAX == 10

Directions == {"up", "down", "left", "right"}

\* The most page calls one call of executeTool makes.
CallsOf(name, args, snapshot) ==
  CASE name = "click_element" ->
         LET elementId == Arg(args, "element_id")
         IN  IF TypeOf(elementId) = "number" /\ HasElement(snapshot, IdOf(elementId))
                  /\ IsWrapper(FindElement(snapshot, IdOf(elementId)))
               THEN 8 ELSE 5
    [] name \in {"navigate", "type_text", "select_option"} -> 2
    [] name = "open_new_tab" -> 3
    [] name \in {"switch_tab", "set_checkbox", "scroll"} -> 1
    [] OTHER -> 0

case_navigate(args, snapshot, tape, b) ==
  LET url == Arg(args, "url")
  IN  IF TypeOf(url) # "string"
        THEN Resolved(Failure("url must be a string", Undefined), <<>>, b)
        ELSE Uncaught(navigate(url, tape, b), Success("Navigated to ", url))

case_open_new_tab(args, snapshot, tape, b) ==
  LET url == Arg(args, "url")
      call == newTab(IF TypeOf(url) = "string" THEN url ELSE Undefined, tape, b)
  IN  Caught(call,
             Success(IF Truthy(url) THEN "Opened new tab and navigated"
                                    ELSE "Opened new tab (blank)",
                     Num(call.browser.pages - 1)),
             "")

\* Without the typeof test of tab_index.
case_switch_tab_Unvalidated(args, snapshot, tape, b) ==
  LET tabIndex == Arg(args, "tab_index")
  IN  Caught(switchTab(tabIndex, tape, b), Success("Switched to tab ", tabIndex), "")

case_switch_tab(args, snapshot, tape, b) ==
  LET tabIndex == Arg(args, "tab_index")
  IN  IF TypeOf(tabIndex) # "number"
        THEN Resolved(Failure("tab_index must be a number", Undefined), <<>>, b)
        ELSE Caught(switchTab(tabIndex, tape, b),
                    Success("Switched to tab ", tabIndex), "")

\* Without the test of targetEl.disabled.
case_click_element_NoDisabledTest(args, snapshot, tape, b) ==
  LET elementId == Arg(args, "element_id")
  IN  IF TypeOf(elementId) # "number"
        THEN Resolved(Failure("element_id must be a number", Undefined), <<>>, b)
      ELSE Caught(clickElement(snapshot, IdOf(elementId), tape, b),
                  Success("Clicked element ", elementId), M_ClickHint)

case_click_element(args, snapshot, tape, b) ==
  LET elementId == Arg(args, "element_id")
  IN  IF TypeOf(elementId) # "number"
        THEN Resolved(Failure("element_id must be a number", Undefined), <<>>, b)
      ELSE IF HasElement(snapshot, IdOf(elementId))
                /\ FindElement(snapshot, IdOf(elementId)).disabled
        THEN Resolved(Failure(M_Disabled, Undefined), <<>>, b)
      ELSE Caught(clickElement(snapshot, IdOf(elementId), tape, b),
                  Success("Clicked element ", elementId), M_ClickHint)

case_type_text(args, snapshot, tape, b) ==
  LET text == Arg(args, "text")
      elementId == Arg(args, "element_id")
  IN  IF TypeOf(text) # "string"
        THEN Resolved(Failure("text must be a string", Undefined), <<>>, b)
        ELSE Caught(typeText(snapshot,
                             IF TypeOf(elementId) = "number" THEN elementId ELSE Null,
                             tape, b),
                    Success("Typed text into ", elementId), "")

case_select_option(args, snapshot, tape, b) ==
  LET elementId == Arg(args, "element_id")
      valueOrLabel == Arg(args, "value_or_label")
  IN  IF TypeOf(elementId) # "number"
        THEN Resolved(Failure("element_id must be a number", Undefined), <<>>, b)
      ELSE IF TypeOf(valueOrLabel) # "string"
        THEN Resolved(Failure("value_or_label must be a string", Undefined), <<>>, b)
      ELSE Caught(selectOption(snapshot, IdOf(elementId), tape, b),
                  Success("Selected in element ", elementId), "")

case_set_checkbox(args, snapshot, tape, b) ==
  LET elementId == Arg(args, "element_id")
      checked == Arg(args, "checked")
  IN  IF TypeOf(elementId) # "number"
        THEN Resolved(Failure("element_id must be a number", Undefined), <<>>, b)
      ELSE IF TypeOf(checked) # "boolean"
        THEN Resolved(Failure("checked must be a boolean", Undefined), <<>>, b)
      ELSE Caught(setCheckbox(snapshot, IdOf(elementId), checked.b, tape, b),
                  Success(IF checked.b THEN "Checked element "
                                       ELSE "Unchecked element ", elementId),
                  "")

case_scroll(args, snapshot, tape, b) ==
  LET direction == Arg(args, "direction")
  IN  IF ~(TypeOf(direction) = "string" /\ direction.s \in Directions)
        THEN Resolved(Failure("direction must be up, down, left, or right", Undefined),
                      <<>>, b)
        ELSE Uncaught(scroll(tape, b), Success("Scrolled ", direction))

\* wait without the clamp to 1..10.
case_wait_Unclamped(args, snapshot, tape, b) ==
  LET sec == NumberOrTwo(Arg(args, "seconds"))
  IN  [Resolved(Success("Waited seconds: ", sec), <<>>, b) EXCEPT !.waited = Millis(sec)]

case_wait(args, snapshot, tape, b) ==
  LET sec == Min(Num(WAIT_MAX), Max(Num(WAIT_MIN), NumberOrTwo(Arg(args, "seconds"))))
  IN  [Resolved(Success("Waited seconds: ", sec), <<>>, b) EXCEPT !.waited = Millis(sec)]

\* task_done that does not raise the stop flag.
case_task_done_NoStop(args, snapshot, tape, b) ==
  LET result == Arg(args, "result")
  IN  Resolved(Success("", IF TypeOf(result) = "string" THEN result ELSE Str("Done")),
               <<>>, b)

case_task_done(args, snapshot, tape, b) ==
  LET result == Arg(args, "result")
  IN  Resolved(ActionResult(TRUE, "",
                            IF TypeOf(result) = "string" THEN result ELSE Str("Done"),
                            "", TRUE, Undefined),
               <<>>, b)

case_request_user_input(args, snapshot, tape, b) ==
  LET question == Arg(args, "question")
  IN  Resolved(ActionResult(TRUE, "",
                            IF TypeOf(question) = "string"
                              THEN question ELSE Str("Need your input"),
                            "", TRUE,
                            IF TypeOf(question) = "string" THEN question ELSE Undefined),
               <<>>, b)

executeTool(name, args, snapshot, tape, b) ==
  CASE name = "navigate" -> case_navigate(args, snapshot, tape, b)
    [] name = "open_new_tab" -> case_open_new_tab(args, snapshot, tape, b)
    [] name = "switch_tab" -> case_switch_tab(args, snapshot, tape, b)
    [] name = "click_element" -> case_click_element(args, snapshot, tape, b)
    [] name = "type_text" -> case_type_text(args, snapshot, tape, b)
    [] name = "select_option" -> case_select_option(args, snapshot, tape, b)
    [] name = "set_checkbox" -> case_set_checkbox(args, snapshot, tape, b)
    [] name = "scroll" -> case_scroll(args, snapshot, tape, b)
    [] name = "wait" -> case_wait(args, snapshot, tape, b)
    [] name = "task_done" -> case_task_done(args, snapshot, tape, b)
    [] name = "request_user_input" -> case_request_user_input(args, snapshot, tape, b)
    [] OTHER -> Resolved(Failure("Unknown tool: ", Str(name)), <<>>, b)

(***************************************************************************)
(* The tool catalog: for each tool the type declared for each property     *)
(* and the properties declared required.                                   *)
(***************************************************************************)
Tool(name, properties, required) ==
  [name |-> name, properties |-> properties, required |-> required]

TOOL_DEFINITIONS == <<
  Tool("navigate", "url" :> "string", {"url"}),
  Tool("open_new_tab", "url" :> "string", {}),
  Tool("switch_tab", "tab_index" :> "integer", {"tab_index"}),
  Tool("click_element", "element_id" :> "integer", {"element_id"}),
  Tool("type_text", ("text" :> "string") @@ ("element_id" :> "integer"), {"text"}),
  Tool("select_option", ("element_id" :> "integer") @@ ("value_or_label" :> "string"),
       {"element_id", "value_or_label"}),
  Tool("set_checkbox", ("element_id" :> "integer") @@ ("checked" :> "boolean"),
       {"element_id", "checked"}),
  Tool("scroll", "direction" :> "direction", {"direction"}),
  Tool("wait", "seconds" :> "number", {"seconds"}),
  Tool("task_done", "result" :> "string", {"result"}),
  Tool("request_user_input", "question" :> "string", {"question"})
>>

ToolNames == {TOOL_DEFINITIONS[k].name : k \in 1..Len(TOOL_DEFINITIONS)}
Definition(name) ==
  TOOL_DEFINITIONS[CHOOSE k \in 1..Len(TOOL_DEFINITIONS) : TOOL_DEFINITIONS[k].name = name]

\* A value has the type the catalog declares (every number here is an integer).
HasDeclaredType(v, type) ==
  CASE type = "string" -> v.t = "string"
    [] type \in {"integer", "number"} -> v.t = "number"
    [] type = "boolean" -> v.t = "boolean"
    [] type = "direction" -> v.t = "string" /\ v.s \in Directions
    [] OTHER -> FALSE

\* A required argument is missing or has the wrong type.
BadRequiredArgument(name, args) ==
  \E key \in Definition(name).required :
    ~HasDeclaredType(Arg(args, key), Definition(name).properties[key])

(***************************************************************************)
(* The oracle's responses.  `arguments` is the raw payload of a tool call: *)
(* JSON for an object (val), the JSON text null, text that JSON.parse      *)
(* rejects, or nothing.                                                    *)
(***************************************************************************)
JsonArgs(val) == [kind |-> "json", val |-> val]
MalformedArgs == [kind |-> "malformed", val |-> EmptyArgs]
AbsentArgs == [kind |-> "absent", val |-> EmptyArgs]
NullArgs == [kind |-> "null", val |-> EmptyArgs]
\* JSON cut short, e.g. {"element_id": 1  -- val is what the text spells out
Truncated(val) == [kind |-> "malformed", val |-> val]

\* A parser that keeps what a payload cut short spells out.
ParseArguments_Lenient(arguments) == arguments.val

\* try { args = JSON.parse(arguments || '{}') } catch (_) { args = {} }
ParseArguments(arguments) ==
  IF arguments.kind = "json" THEN arguments.val ELSE EmptyArgs

\* Object.entries(args) throws a TypeError when JSON.parse gave null
logToolCallThrows(arguments) == arguments.kind = "null"

ToolCall(id, name, arguments) == [id |-> id, name |-> name, arguments |-> arguments]

\* response.choices[0] is missing
NoChoice == [present |-> FALSE, finish |-> "", content |-> "", calls |-> <<>>]
TextChoice(finish, content) ==
  [present |-> TRUE, finish |-> finish, content |-> content, calls |-> <<>>]
CallChoice(calls) ==
  [present |-> TRUE, finish |-> "tool_calls", content |-> "", calls |-> calls]

Click(id, elementId) ==
  ToolCall(id, "click_element", JsonArgs("element_id" :> elementId))
C_Navigate == ToolCall("call_n", "navigate", JsonArgs("url" :> Str("https://example.com")))
C_TaskDone == ToolCall("call_d", "task_done", JsonArgs("result" :> Str("summary")))
C_Ask == ToolCall("call_q", "request_user_input", JsonArgs("question" :> Str("which one?")))

\* The responses of a scripted oracle (its transcript is kept in full).
ScriptedResponses ==
  { TextChoice("stop", "thinking"),
    TextChoice("stop", ""),
    TextChoice("length", "cut"),
    CallChoice(<<Click("call_1", Num(1))>>),
    CallChoice(<<Click("call_2", Num(2))>>),
    CallChoice(<<C_Navigate>>),
    CallChoice(<<C_TaskDone>>),
    CallChoice(<<C_Ask>>),
    CallChoice(<<ToolCall("call_x", "click_element", NullArgs)>>),
    CallChoice(<<ToolCall("call_t", "click_element", Truncated("element_id" :> Num(1)))>>),
    CallChoice(<<ToolCall("call_b", "open_new_tab", MalformedArgs)>>),
    CallChoice(<<Click("call_9", Num(9)), C_TaskDone>>) }

Responses ==
  ScriptedResponses \cup
  { CallChoice(<<Click("call_3", Num(3))>>),
    CallChoice(<<Click("call_4", Num(4))>>),
    CallChoice(<<Click("call_8", Num(9))>>),
    CallChoice(<<Click("call_s", Str("1"))>>),
    CallChoice(<<ToolCall("call_m", "click_element", MalformedArgs)>>),
    CallChoice(<<ToolCall("call_n", "navigate", AbsentArgs)>>),
    CallChoice(<<ToolCall("call_t", "type_text",
                          JsonArgs(("text" :> Str("hello")) @@ ("element_id" :> Num(1))))>>),
    CallChoice(<<ToolCall("call_o", "open_new_tab", AbsentArgs)>>),
    CallChoice(<<ToolCall("call_w", "switch_tab", JsonArgs("tab_index" :> Num(0)))>>),
    CallChoice(<<ToolCall("call_c", "scroll", JsonArgs("direction" :> Str("down")))>>),
    CallChoice(<<ToolCall("call_z", "wait", JsonArgs("seconds" :> Num(3)))>>),
    CallChoice(<<ToolCall("call_d", "task_done", AbsentArgs)>>),
    CallChoice(<<ToolCall("call_q", "request_user_input", AbsentArgs)>>),
    CallChoice(<<ToolCall("call_q", "request_user_input", JsonArgs("question" :> Num(1)))>>),
    CallChoice(<<ToolCall("call_u", "frobnicate", AbsentArgs)>>),
    CallChoice(<<Click("call_2", Num(2)), Click("call_1", Num(1))>>) }

(***************************************************************************)
(* The page script (collectSnapshotScript) over a document.  A document is *)
(* the sequence of its elements in document order; element 1 is the body,  *)
(* and `parent` is the index of the parent element.  Texts are sequences   *)
(* of characters.                                                          *)
(***************************************************************************)
MAX_ELEMENTS == 200
KEY_TEXT == 50
SELECTOR_TEXT == 80
ELEMENT_TEXT == 200

DomNode(tag, role, text) ==
  [tag |-> tag, role |-> role, name |-> "", type |-> "", href |-> NoText,
   aria |-> NoText, text |-> text, small |-> FALSE, hidden |-> FALSE,
   stacked |-> FALSE, tabindex |-> FALSE, disabled |-> FALSE, card |-> FALSE,
   parent |-> 1]

Body == [DomNode("body", "", NoText) EXCEPT !.parent = 0]

\* el.children
Children(doc, k) ==
  SelectSeq([j \in 1..Len(doc) |-> j], LAMBDA j : doc[j].parent = k)

\* el.textContent: the text of the element and of all its descendants
RECURSIVE TextContent(_, _)
RECURSIVE TextContentOf(_, _, _, _)
\* the texts of the elements ks[lo..hi], one after another
TextContentOf(doc, ks, lo, hi) ==
  IF lo > hi THEN <<>>
  ELSE IF lo = hi THEN TextContent(doc, ks[lo])
  ELSE LET mid == (lo + hi) \div 2
       IN  TextContentOf(doc, ks, lo, mid) \o TextContentOf(doc, ks, mid + 1, hi)

TextContent(doc, k) ==
  LET ks == Children(doc, k)
  IN  doc[k].text \o TextContentOf(doc, ks, 1, Len(ks))

\* el.innerText: the rendered text, without descendants that are not rendered
RECURSIVE InnerText(_, _)
RECURSIVE InnerTextOf(_, _, _, _)
InnerTextOf(doc, ks, lo, hi) ==
  IF lo > hi THEN <<>>
  ELSE IF lo = hi THEN (IF doc[ks[lo]].hidden THEN <<>> ELSE InnerText(doc, ks[lo]))
  ELSE LET mid == (lo + hi) \div 2
       IN  InnerTextOf(doc, ks, lo, mid) \o InnerTextOf(doc, ks, mid + 1, hi)

InnerText(doc, k) ==
  LET ks == Children(doc, k)
  IN  IF doc[k].hidden THEN TextContent(doc, k)
      ELSE doc[k].text \o InnerTextOf(doc, ks, 1, Len(ks))

\* el.innerText || el.textContent || ''
RenderedText(doc, k) ==
  IF InnerText(doc, k) # <<>> THEN InnerText(doc, k) ELSE TextContent(doc, k)

InteractiveRoles == {"button", "switch", "link", "menuitem", "tab", "option"}

\* el.matches(interactiveSelector)
MatchesInteractive(node) ==
  \/ node.tag \in {"button", "textarea", "select"}
  \/ node.tag = "a" /\ node.href # NoText
  \/ node.tag = "input" /\ node.type # "hidden"
  \/ node.role \in InteractiveRoles
  \/ node.tabindex

\* el.matches('a, button, input, textarea, select, [role="button"], [role="link"]')
MatchesControl(node) ==
  \/ node.tag \in {"a", "button", "input", "textarea", "select"}
  \/ node.role \in {"button", "link"}

\* rect.top of getBoundingClientRect; elements laid out one under another,
\* stacked ones at the top of the page
RectTop(doc, k) == IF doc[k].stacked THEN 0 ELSE k

\* `${el.tagName}-${rawInner.slice(0, 50)}-${href}-${rect.top}-${rect.left}`
SeenKey(doc, k) ==
  <<doc[k].tag, Slice(Trim(RenderedText(doc, k)), KEY_TEXT), doc[k].href, RectTop(doc, k)>>

\* skipSmall && !(isButtonLike && hasLabel)
SkippedAsSmall(doc, k) ==
  LET isButtonLike == doc[k].role = "button" \/ (doc[k].tag = "a" /\ doc[k].href # NoText)
      hasLabel ==
        Trim(IF RenderedText(doc, k) # <<>> THEN RenderedText(doc, k) ELSE doc[k].aria) # <<>>
  IN  doc[k].small /\ ~(isButtonLike /\ hasLabel)

\* parts.join(''): tag, [role=...], [name=...] on input and textarea,
\* [type=...] on input
CssSelector(node) ==
  [tag |-> node.tag, role |-> node.role,
   name |-> IF node.tag \in {"input", "textarea"} THEN node.name ELSE "",
   type |-> IF node.tag = "input" THEN node.type ELSE ""]

MatchesCss(node, css) ==
  /\ node.tag = css.tag
  /\ css.role # "" => node.role = css.role
  /\ css.name # "" => node.name = css.name
  /\ css.type # "" => node.type = css.type

\* document.querySelectorAll(selector), in document order
QuerySelectorAll(doc, css) ==
  SelectSeq([j \in 1..Len(doc) |-> j], LAMBDA j : MatchesCss(doc[j], css))

\* text.replace(/\\/g, '\\\\').replace(/"/g, '\\"').replace(/\n/g, ' ')
RECURSIVE EscapeText(_)
EscapeText(text) ==
  IF text = <<>> THEN <<>>
  ELSE (CASE Head(text) = "\\" -> <<"\\", "\\">>
          [] Head(text) = "\"" -> <<"\\", "\"">>
          [] Head(text) = "\n" -> <<" ">>
          [] OTHER -> <<Head(text)>>) \o EscapeText(Tail(text))

IndexIn(list, k) == CHOOSE p \in 1..Len(list) : list[p] = k

\* getStableSelector(el)
getStableSelector(doc, k) ==
  LET node == doc[k]
      text == Slice(Trim(IF InnerText(doc, k) # <<>> THEN InnerText(doc, k) ELSE node.aria),
                    SELECTOR_TEXT)
      css  == CssSelector(node)
      all  == QuerySelectorAll(doc, css)
  IN  IF Len(all) > 1 /\ text # <<>>
        THEN [type |-> "xpath", selector |-> css, text |-> EscapeText(text), index |-> 0]
        ELSE IF Len(all) > 1
          THEN [type |-> "nth", selector |-> css, text |-> NoText,
                index |-> IndexIn(all, k) - 1]
          ELSE [type |-> "selector", selector |-> css, text |-> NoText, index |-> 0]

\* text || ariaLabel || ... || (href ? `link: ${href}` : '')
DisplayText(doc, k) ==
  LET text == Slice(Trim(RenderedText(doc, k)), ELEMENT_TEXT)
  IN  IF text # <<>> THEN text
      ELSE IF Trim(doc[k].aria) # <<>> THEN Trim(doc[k].aria)
      ELSE IF Trim(doc[k].href) # <<>>
        THEN <<"l","i","n","k",":"," ">> \o Trim(doc[k].href)
        ELSE NoText

\* the object pushed for one element; `node` remembers which element of the
\* document it was made from
Captured(doc, k, id) ==
  [id |-> id,
   role |-> IF doc[k].role # "" THEN doc[k].role ELSE doc[k].tag,
   tagName |-> doc[k].tag,
   text |-> DisplayText(doc, k),
   href |-> Trim(doc[k].href),
   selector |-> getStableSelector(doc, k),
   disabled |-> doc[k].disabled,
   node |-> k]

\* No element count reaches the cap.
CapReached_Never(elements) == Len(elements) < 0

\* elements.length >= MAX_ELEMENTS
CapReached(elements) == Len(elements) >= MAX_ELEMENTS

\* walk(node), with the script's `elements` and `seen` passed along
RECURSIVE walk(_, _, _)
RECURSIVE walkEach(_, _, _, _, _)
\* for (let i = lo; i <= hi; i++) walk(ks[i]), the first half and then the
\* second; once the cap is reached every further walk returns at once
walkEach(doc, ks, lo, hi, acc) ==
  IF lo > hi \/ CapReached(acc.elements) THEN acc
  ELSE IF lo = hi THEN walk(doc, ks[lo], acc)
  ELSE LET mid  == (lo + hi) \div 2
           half == walkEach(doc, ks, lo, mid, acc)
       IN  walkEach(doc, ks, mid + 1, hi, half)

\* for (let i = 0; i < el.children.length; i++) walk(el.children[i])
walkChildren(doc, k, acc) ==
  LET ks == Children(doc, k)
  IN  walkEach(doc, ks, 1, Len(ks), acc)

walk(doc, k, acc) ==
  LET inside == walkChildren(doc, k, acc)
  IN  IF CapReached(acc.elements) THEN acc
      ELSE IF ~MatchesInteractive(doc[k]) THEN inside
      ELSE IF SkippedAsSmall(doc, k) THEN inside
      ELSE IF doc[k].hidden THEN inside
      ELSE IF SeenKey(doc, k) \in acc.seen THEN inside
      ELSE LET pushed == [elements |-> Append(acc.elements,
                                               Captured(doc, k, Len(acc.elements) + 1)),
                          seen |-> acc.seen \cup {SeenKey(doc, k)}]
           IN  IF MatchesControl(doc[k]) THEN pushed
               ELSE walkChildren(doc, k, pushed)

\* The set of keys outlives the call of the script.
ScriptSeen_Kept(kept) == kept

\* const seen = new Set(): made anew by every call of the script
ScriptSeen(kept) == {}

\* collectSnapshotScript(): the elements of the snapshot, and the keys seen
collectSnapshotScript(doc, kept) ==
  IF doc = <<>> THEN [elements |-> <<>>, seen |-> ScriptSeen(kept)]
  ELSE walk(doc, 1, [elements |-> <<>>, seen |-> ScriptSeen(kept)])

\* normalize-space(.): blanks at the ends removed, runs of blanks made one
RECURSIVE CollapseSpace(_)
CollapseSpace(text) ==
  IF text = <<>> THEN <<>>
  ELSE IF Head(text) \in SpaceChars
    THEN <<" ">> \o CollapseSpace(TrimLeft(text))
    ELSE <<Head(text)>> \o CollapseSpace(Tail(text))

NormalizeSpace(text) == CollapseSpace(Trim(text))

\* contains(a, b)
Contains(hay, needle) ==
  \E p \in 0..(Len(hay) - Len(needle)) : SubSeq(hay, p + 1, p + Len(needle)) = needle

\* In XPath the step predicate [role="x"] tests a child element named role,
\* not an attribute.
HasChildNamed(doc, k, tag) ==
  \E p \in 1..Len(Children(doc, k)) : doc[Children(doc, k)[p]].tag = tag

\* '//' + selector + '[contains(normalize-space(.), "' + escaped + '")]'
MatchesXPath(doc, k, desc) ==
  /\ doc[k].tag = desc.selector.tag
  /\ desc.selector.role # "" => HasChildNamed(doc, k, "role")
  /\ desc.selector.name # "" => HasChildNamed(doc, k, "name")
  /\ desc.selector.type # "" => HasChildNamed(doc, k, "type")
  /\ Contains(NormalizeSpace(TextContent(doc, k)), desc.text)

\* A string literal of XPath 1.0 ends at the first double quote.
XPathInvalid(desc) == \E p \in 1..Len(desc.text) : desc.text[p] = "\""

NotFound == 0

FirstOf(list) == IF list = <<>> THEN NotFound ELSE list[1]

\* findBySelector() of clickViaEvaluate and locatorFromSelector(): the
\* element the descriptor resolves to, NotFound when there is none
ResolveSelector(doc, desc) ==
  CASE desc.type = "xpath" ->
         IF XPathInvalid(desc) THEN NotFound
         ELSE FirstOf(SelectSeq([j \in 1..Len(doc) |-> j],
                                LAMBDA j : MatchesXPath(doc, j, desc)))
    [] desc.type = "nth" ->
         LET list == QuerySelectorAll(doc, desc.selector)
         IN  IF desc.index + 1 <= Len(list) THEN list[desc.index + 1] ELSE NotFound
    [] OTHER -> FirstOf(QuerySelectorAll(doc, desc.selector))

\* No call of getSnapshot has begun.
NoReads == [pc |-> "idle", pages |-> 0, inflight |-> {}, titles |-> <<>>, error |-> ""]

\* No document is loaded.
NoDom == [doc |-> <<>>, phase |-> "none", snap |-> <<>>, seen |-> {}, again |-> <<>>,
          target |-> 0, found |-> NotFound, live |-> <<>>, changed |-> FALSE,
          verdict |-> NotDestructive, allowed |-> "none", ok |-> FALSE,
          events |-> <<>>]

(***************************************************************************)
(* runAgent.                                                               *)
(***************************************************************************)
MAX_ITERATIONS == 80

\* Cycles in which a scripted oracle answers before it becomes unavailable.
MaxScript == 2
\* Pages the browser can hold open.
MaxTabs == 2

VARIABLES
  hasConfirm,      \* deps.getUserConfirmation is given
  tracked,         \* the transcript is kept in full (scripted oracle)
  oracleLeft,      \* decisions the oracle still answers
  browser,         \* BrowserController: open pages, index of the active page
  pc,              \* where runAgent is suspended, or "done" / "crashed"
  i,               \* the loop counter
  messages,        \* the transcript
  snapshot,        \* the snapshot of the current cycle
  response,        \* the oracle's response of the current cycle
  result,          \* the ActionResult of the current cycle
  ret,             \* the value runAgent resolved to
  confirmCalls,    \* calls of getUserConfirmation in the current cycle
  allowed,         \* what that call resolved to: "none" before it does
  execCalls,       \* calls of executeTool in the current cycle
  pageCalls,       \* page calls made by the current cycle's action
  waited,          \* milliseconds slept by the current cycle's action
  snapshotsTaken,  \* calls of browser.getSnapshot that returned, this run
  oracleCalls,     \* oracle responses received, this run
  approved,        \* some confirmation of this run was answered true
  call,            \* a single call of the gate or the dispatcher (SpecCall)
  gate,            \* the pattern objects and the calls made of the gate (SpecGate)
  dom,             \* a document and what the page script made of it (SpecPage)
  io               \* the page operations of one getSnapshot call in flight (SpecReads)

vars == <<hasConfirm, tracked, oracleLeft, browser, pc, i, messages, snapshot,
          response, result, ret, confirmCalls, allowed, execCalls, pageCalls,
          waited, snapshotsTaken, oracleCalls, approved, call, gate, dom, io>>

NoContent == [error |-> FALSE, message |-> NoResult.message]

Turn(role, text, state, calls, id, content) ==
  [role |-> role, text |-> text, state |-> state, tool_calls |-> calls,
   tool_call_id |-> id, content |-> content]

SystemTurn == Turn("system", "systemPrompt", <<>>, <<>>, "", NoContent)
TaskTurn == Turn("user", "Current task from user: ", <<>>, <<>>, "", NoContent)
\* { role: 'user', content: 'Current page state:\n\n' + snapshotText }
StateTurn(s) == Turn("user", "Current page state:", <<s>>, <<>>, "", NoContent)
AssistantTurn(text) == Turn("assistant", text, <<>>, <<>>, "", NoContent)
\* only toolCalls[0] is recorded, with its raw arguments
CallTurn(tc) ==
  Turn("assistant", "", <<>>,
       <<ToolCall(tc.id, tc.name,
                  IF tc.arguments.kind = "absent" THEN JsonArgs(EmptyArgs)
                                                  ELSE tc.arguments)>>,
       "", NoContent)
\* content: result.success ? result.message : 'Error: ' + result.message
ToolTurn(tc, r) ==
  Turn("tool", "", <<>>, <<>>, tc.id, [error |-> ~r.success, message |-> r.message])

\* messages.push(turn)
Push(m, turn) == IF tracked THEN Append(m, turn) ELSE m

\* The page state is merged into the opening user turn in every cycle.
WithState_AlwaysMerges(m, s) ==
  IF ~tracked THEN m ELSE [m EXCEPT ![2].state = Append(@, s)]

\* i === 0 ? messages[1].content += state : messages.push(stateMessage)
WithState(m, s) ==
  IF ~tracked THEN m
  ELSE IF i = 0 THEN [m EXCEPT ![2].state = Append(@, s)]
  ELSE Append(m, StateTurn(s))

NoReturn == [done |-> FALSE, result |-> NoResult.message, userQuestion |-> Undefined,
             error |-> ""]
Exhausted == [NoReturn EXCEPT !.error = "Max iterations reached"]
NoResponse == [NoReturn EXCEPT !.error = "No response from model"]
Stopped(r) == [done |-> TRUE, result |-> r.message, userQuestion |-> r.userQuestion,
               error |-> ""]

\* result = { success: false, message: 'User denied the action.' }
Denied == Failure("User denied the action.", Undefined)

\* The last of the tool calls of the choice is the one carried out.
TheCall_Last == response.calls[Len(response.calls)]

\* const toolCall = toolCalls[0]
TheCall == response.calls[1]
TheName == TheCall.name
TheArgs == ParseArguments(TheCall.arguments)
Security == checkDestructiveAction(TheName, TheArgs, snapshot)

\* The gate asks whenever there is somebody to ask.
NeedsConfirmation_Always(security) == hasConfirm

\* The gate does not test that there is somebody to ask.
NeedsConfirmation_Unchecked(security) == security.destructive

\* An approval given earlier in the run is taken to stand.
NeedsConfirmation_Remembered(security) ==
  security.destructive /\ hasConfirm /\ ~approved

\* if (security.destructive && getUserConfirmation)
NeedsConfirmation(security) == security.destructive /\ hasConfirm

\* a page on which nothing fails
QuietPage ==
  [titles |-> <<TRUE, TRUE, TRUE>>, waits |-> <<TRUE, TRUE>>, reads |-> <<"ok", "ok">>,
   content |-> <<NoSnapshot, NoSnapshot>>]
AllSucceed == [k \in 1..8 |-> TRUE]
LaunchedBrowser == [pages |-> 1, page |-> 0]
NoCall ==
  [applied |-> "none", name |-> "", args |-> EmptyArgs, snapshot |-> NoSnapshot,
   browser |-> LaunchedBrowser, tape |-> AllSucceed, verdict |-> NotDestructive,
   outcome |-> Resolved(NoResult, <<>>, LaunchedBrowser),
   live |-> QuietPage, read |-> SnapshotThrew("", <<>>, LaunchedBrowser)]

NoGateCall == [toolName |-> "", args |-> EmptyArgs, snapshot |-> NoSnapshot]
NoGate ==
  [phase |-> "none", lastIndexes |-> FreshPatterns, input |-> NoGateCall,
   left |-> NoGateCall, verdict |-> NotDestructive,
   ref |-> [input |-> NoGateCall, verdict |-> NotDestructive]]

Init ==
  /\ hasConfirm \in BOOLEAN
  /\ tracked = TRUE
  /\ oracleLeft = MaxScript
  /\ browser = LaunchedBrowser
  /\ pc = "perceive"
  /\ i = 0
  /\ messages = <<SystemTurn, TaskTurn>>
  /\ snapshot = NoSnapshot
  /\ response = NoChoice
  /\ result = NoResult
  /\ ret = NoReturn
  /\ confirmCalls = 0
  /\ allowed = "none"
  /\ execCalls = 0
  /\ pageCalls = <<>>
  /\ waited = 0
  /\ snapshotsTaken = 0
  /\ oracleCalls = 0
  /\ approved = FALSE
  /\ call = NoCall
  /\ gate = NoGate
  /\ dom = NoDom
  /\ io = NoReads

\* `continue`, i++ and the test i < MAX_ITERATIONS; after the loop,
\* return { done: false, error: 'Max iterations reached' }
Continue ==
  /\ i' = i + 1
  /\ IF i + 1 < MAX_ITERATIONS
       THEN pc' = "perceive" /\ ret' = ret
       ELSE pc' = "done" /\ ret' = Exhausted

\* what no step of runAgent changes
fixed == <<hasConfirm, tracked, call, gate, dom, io>>

\* A perception that renders the new page state for the oracle and keeps
\* the snapshot of the first cycle for the gate and the dispatcher.
Perceive_KeepsFirst ==
  /\ pc = "perceive"
  /\ \E s \in Snapshots : /\ snapshot' = (IF i = 0 THEN s ELSE snapshot)
                          /\ messages' = WithState(messages, s)
  /\ snapshotsTaken' = snapshotsTaken + 1
  /\ pc' = "decide"
  /\ response' = NoChoice
  /\ result' = NoResult
  /\ confirmCalls' = 0
  /\ allowed' = "none"
  /\ execCalls' = 0
  /\ pageCalls' = <<>>
  /\ waited' = 0
  /\ UNCHANGED <<fixed, oracleLeft, browser, i, ret, oracleCalls, approved>>

\* snapshot = await browser.getSnapshot(); the state turn; the oracle is called
Perceive ==
  /\ pc = "perceive"
  /\ \E s \in Snapshots : /\ snapshot' = s
                          /\ messages' = WithState(messages, s)
  /\ snapshotsTaken' = snapshotsTaken + 1
  /\ pc' = "decide"
  /\ response' = NoChoice
  /\ result' = NoResult
  /\ confirmCalls' = 0
  /\ allowed' = "none"
  /\ execCalls' = 0
  /\ pageCalls' = <<>>
  /\ waited' = 0
  /\ UNCHANGED <<fixed, oracleLeft, browser, i, ret, oracleCalls, approved>>

\* a new cycle begins and browser.getSnapshot() rejects: nothing in runAgent
\* handles it
SnapshotFails ==
  /\ pc = "perceive"
  /\ pc' = "rejected:getSnapshot"
  /\ snapshot' = NoSnapshot
  /\ response' = NoChoice
  /\ result' = NoResult
  /\ confirmCalls' = 0
  /\ allowed' = "none"
  /\ execCalls' = 0
  /\ pageCalls' = <<>>
  /\ waited' = 0
  /\ UNCHANGED <<fixed, oracleLeft, browser, i, messages, ret, snapshotsTaken,
                 oracleCalls, approved>>

\* if (!choice) return { done: false, error: 'No response from model' }
\* An empty answer that asks the oracle again.
OracleUnavailable_Retries ==
  /\ pc = "decide"
  /\ response' = NoChoice
  /\ oracleCalls' = oracleCalls + 1
  /\ pc' = "decide"
  /\ UNCHANGED <<fixed, oracleLeft, browser, i, messages, snapshot, result, ret,
                 confirmCalls, allowed, execCalls, pageCalls, waited, snapshotsTaken,
                 approved>>

OracleUnavailable ==
  /\ pc = "decide"
  /\ response' = NoChoice
  /\ oracleCalls' = oracleCalls + 1
  /\ ret' = NoResponse
  /\ pc' = "done"
  /\ UNCHANGED <<fixed, oracleLeft, browser, i, messages, snapshot, result,
                 confirmCalls, allowed, execCalls, pageCalls, waited, snapshotsTaken,
                 approved>>

OracleResponses == IF tracked THEN ScriptedResponses ELSE Responses

\* A text turn that leaves the loop counter alone.
OracleText_NotCounted ==
  /\ pc = "decide"
  /\ oracleLeft > 0
  /\ \E r \in OracleResponses :
       /\ r.calls = <<>>
       /\ response' = r
       /\ messages' = Push(messages, AssistantTurn(r.content))
  /\ oracleLeft' = oracleLeft - 1
  /\ oracleCalls' = oracleCalls + 1
  /\ pc' = "perceive"
  /\ UNCHANGED <<fixed, browser, i, snapshot, result, ret, confirmCalls, allowed,
                 execCalls, pageCalls, waited, snapshotsTaken, approved>>

\* a choice without tool calls: one assistant turn, nothing is executed
OracleText ==
  /\ pc = "decide"
  /\ oracleLeft > 0
  /\ \E r \in OracleResponses :
       /\ r.calls = <<>>
       /\ response' = r
       /\ messages' =
            Push(messages,
                 AssistantTurn(IF r.content # "" THEN r.content
                               ELSE IF r.finish = "stop" THEN "(no content)"
                               ELSE ""))
  /\ oracleLeft' = oracleLeft - 1
  /\ oracleCalls' = oracleCalls + 1
  /\ Continue
  /\ UNCHANGED <<fixed, browser, snapshot, result, confirmCalls, allowed, execCalls,
                 pageCalls, waited, snapshotsTaken, approved>>

\* a choice with tool calls: the first is recorded and gated; then either
\* getUserConfirmation or executeTool is called
OracleToolCall ==
  /\ pc = "decide"
  /\ oracleLeft > 0
  /\ \E r \in OracleResponses :
       /\ r.calls # <<>>
       /\ ~logToolCallThrows(r.calls[1].arguments)
       /\ r.calls[1].name = "open_new_tab" => browser.pages < MaxTabs
       /\ response' = r
       /\ messages' = Push(messages, CallTurn(r.calls[1]))
       /\ LET security ==
                checkDestructiveAction(r.calls[1].name,
                                       ParseArguments(r.calls[1].arguments), snapshot)
          IN  IF NeedsConfirmation(security)
                THEN pc' = "confirm" /\ confirmCalls' = 1 /\ execCalls' = 0
                ELSE pc' = "execute" /\ confirmCalls' = 0 /\ execCalls' = 1
  /\ oracleLeft' = oracleLeft - 1
  /\ oracleCalls' = oracleCalls + 1
  /\ UNCHANGED <<fixed, browser, i, snapshot, result, ret, allowed, pageCalls, waited,
                 snapshotsTaken, approved>>

\* logToolCall(name, args) throws: nothing in runAgent handles it
LogToolCallThrows ==
  /\ pc = "decide"
  /\ oracleLeft > 0
  /\ \E r \in OracleResponses :
       /\ r.calls # <<>>
       /\ logToolCallThrows(r.calls[1].arguments)
       /\ response' = r
  /\ oracleLeft' = oracleLeft - 1
  /\ oracleCalls' = oracleCalls + 1
  /\ pc' = "rejected:logToolCall"
  /\ UNCHANGED <<fixed, browser, i, messages, snapshot, result, ret, confirmCalls,
                 allowed, execCalls, pageCalls, waited, snapshotsTaken, approved>>

\* await executeTool(name, args, { snapshot, browser }), for every way the
\* page may answer
ToolOutcomes ==
  {executeTool(TheName, TheArgs, snapshot, tape, browser) :
     tape \in TapesOfLength(CallsOf(TheName, TheArgs, snapshot))}

\* A denial that goes on to the next cycle without a tool turn.
ConfirmDenied_Unfolded ==
  /\ pc = "confirm"
  /\ allowed' = "false"
  /\ result' = Denied
  /\ Continue
  /\ UNCHANGED <<fixed, oracleLeft, browser, messages, snapshot, response, confirmCalls,
                 execCalls, pageCalls, waited, snapshotsTaken, oracleCalls, approved>>

\* A denial that ends the run.
ConfirmDenied_Returns ==
  /\ pc = "confirm"
  /\ allowed' = "false"
  /\ result' = Denied
  /\ messages' = Push(messages, ToolTurn(TheCall, Denied))
  /\ pc' = "done"
  /\ ret' = Stopped(Denied)
  /\ UNCHANGED <<fixed, oracleLeft, browser, i, snapshot, response, confirmCalls,
                 execCalls, pageCalls, waited, snapshotsTaken, oracleCalls, approved>>

\* A denial after which the action is dispatched all the same.
ConfirmDenied_Executes ==
  /\ pc = "confirm"
  /\ allowed' = "false"
  /\ pc' = "execute"
  /\ execCalls' = execCalls + 1
  /\ UNCHANGED <<fixed, oracleLeft, browser, i, messages, snapshot, response, result,
                 ret, confirmCalls, pageCalls, waited, snapshotsTaken, oracleCalls,
                 approved>>

\* allowed = false: the denial is the result, folded at once
ConfirmDenied ==
  /\ pc = "confirm"
  /\ allowed' = "false"
  /\ result' = Denied
  /\ messages' = Push(messages, ToolTurn(TheCall, Denied))
  /\ Continue
  /\ UNCHANGED <<fixed, oracleLeft, browser, snapshot, response, confirmCalls,
                 execCalls, pageCalls, waited, snapshotsTaken, oracleCalls, approved>>

\* allowed = true: executeTool is called
ConfirmAllowed ==
  /\ pc = "confirm"
  /\ allowed' = "true"
  /\ pc' = "execute"
  /\ execCalls' = execCalls + 1
  /\ approved' = TRUE
  /\ UNCHANGED <<fixed, oracleLeft, browser, i, messages, snapshot, response, result,
                 ret, confirmCalls, pageCalls, waited, snapshotsTaken, oracleCalls>>

\* executeTool resolves: the result is folded; stop ends the run
ExecuteResolves ==
  /\ pc = "execute"
  /\ \E out \in ToolOutcomes :
       /\ ~out.threw
       /\ result' = out.result
       /\ browser' = out.browser
       /\ pageCalls' = out.trace
       /\ waited' = out.waited
       /\ messages' = Push(messages, ToolTurn(TheCall, out.result))
       /\ IF out.result.stop
            THEN pc' = "done" /\ ret' = Stopped(out.result) /\ i' = i
            ELSE Continue
  /\ UNCHANGED <<fixed, oracleLeft, snapshot, response, confirmCalls, allowed,
                 execCalls, snapshotsTaken, oracleCalls, approved>>

\* executeTool rejects: nothing in runAgent handles it
ExecuteRejects ==
  /\ pc = "execute"
  /\ \E out \in ToolOutcomes :
       /\ out.threw
       /\ browser' = out.browser
       /\ pageCalls' = out.trace
  /\ pc' = "rejected:executeTool"
  /\ UNCHANGED <<fixed, oracleLeft, i, messages, snapshot, response, result, ret,
                 confirmCalls, allowed, execCalls, waited, snapshotsTaken,
                 oracleCalls, approved>>

Next ==
  \/ Perceive
  \/ SnapshotFails
  \/ OracleUnavailable
  \/ OracleText
  \/ OracleToolCall
  \/ LogToolCallThrows
  \/ ConfirmDenied
  \/ ConfirmAllowed
  \/ ExecuteResolves
  \/ ExecuteRejects

Spec == Init /\ [][Next]_vars

\* An oracle that is free at every decision of the run; the transcript is
\* not kept.
InitLong ==
  /\ hasConfirm \in BOOLEAN
  /\ tracked = FALSE
  /\ oracleLeft = MAX_ITERATIONS
  /\ browser = LaunchedBrowser
  /\ pc = "perceive"
  /\ i = 0
  /\ messages = <<SystemTurn, TaskTurn>>
  /\ snapshot = NoSnapshot
  /\ response = NoChoice
  /\ result = NoResult
  /\ ret = NoReturn
  /\ confirmCalls = 0
  /\ allowed = "none"
  /\ execCalls = 0
  /\ pageCalls = <<>>
  /\ waited = 0
  /\ snapshotsTaken = 0
  /\ oracleCalls = 0
  /\ approved = FALSE
  /\ call = NoCall
  /\ gate = NoGate
  /\ dom = NoDom
  /\ io = NoReads

SpecLong == InitLong /\ [][Next]_vars

(***************************************************************************)
(* One call of the gate or of the dispatcher, on every input of a bounded  *)
(* set: any tool name, any argument record over the tool's properties and  *)
(* element_id, either page, one or two open tabs.                          *)
(***************************************************************************)
ArgValues ==
  {Num(-1), Num(0), Half(0), Num(1), Half(1), Num(2), Num(3), Num(4), Num(9), Num(12),
   Str("down"), Str("x"), Bool(TRUE), Null}

InputNames == ToolNames \cup {"frobnicate"}

InputKeys(name) ==
  {"element_id"} \cup (IF name \in ToolNames THEN DOMAIN Definition(name).properties
                                             ELSE {})

InputArgs(name) == UNION {[keys -> ArgValues] : keys \in SUBSET InputKeys(name)}

InputSnapshots == Snapshots \cup GatePages

InputBrowsers == {LaunchedBrowser, [pages |-> 2, page |-> 0]}

InitCall ==
  /\ hasConfirm = FALSE
  /\ tracked = FALSE
  /\ oracleLeft = 0
  /\ browser = LaunchedBrowser
  /\ pc = "idle"
  /\ i = 0
  /\ messages = <<>>
  /\ snapshot = NoSnapshot
  /\ response = NoChoice
  /\ result = NoResult
  /\ ret = NoReturn
  /\ confirmCalls = 0
  /\ allowed = "none"
  /\ execCalls = 0
  /\ pageCalls = <<>>
  /\ waited = 0
  /\ snapshotsTaken = 0
  /\ oracleCalls = 0
  /\ approved = FALSE
  /\ gate = NoGate
  /\ dom = NoDom
  /\ io = NoReads
  /\ \E name \in InputNames, s \in InputSnapshots, b \in InputBrowsers :
       \E args \in InputArgs(name) :
         call = [NoCall EXCEPT !.applied = "input", !.name = name, !.args = args,
                               !.snapshot = s, !.browser = b]

loop == <<hasConfirm, tracked, oracleLeft, browser, pc, i, messages, snapshot,
          response, result, ret, confirmCalls, allowed, execCalls, pageCalls,
          waited, snapshotsTaken, oracleCalls, approved>>

\* security = checkDestructiveAction(name, args, snapshot)
CallGate ==
  /\ call.applied = "input"
  /\ call' = [call EXCEPT !.applied = "gate",
                          !.verdict = checkDestructiveAction(call.name, call.args,
                                                             call.snapshot)]
  /\ UNCHANGED <<loop, gate, dom, io>>

\* result = await executeTool(name, args, { snapshot, browser })
CallTool ==
  /\ call.applied = "input"
  /\ \E tape \in TapesOfLength(CallsOf(call.name, call.args, call.snapshot)) :
       call' = [call EXCEPT !.applied = "tool", !.tape = tape,
                            !.outcome = executeTool(call.name, call.args, call.snapshot,
                                                    tape, call.browser)]
  /\ UNCHANGED <<loop, gate, dom, io>>

NextCall == CallGate \/ CallTool

SpecCall == InitCall /\ [][NextCall]_vars

(***************************************************************************)
(* One call of getSnapshot on every live page of a bounded set.            *)
(***************************************************************************)
LivePages ==
  [titles : {<<TRUE, TRUE, TRUE>>, <<FALSE, TRUE, TRUE>>, <<TRUE, FALSE, TRUE>>},
   waits : [1..2 -> BOOLEAN],
   reads : [1..2 -> {"ok"} \cup ReadErrors],
   content : [1..2 -> Snapshots]]

SnapshotBrowsers ==
  {b \in [pages : 1..MaxTabs, page : 0..(MaxTabs - 1)] : b.page < b.pages}

InitSnapshot ==
  /\ hasConfirm = FALSE
  /\ tracked = FALSE
  /\ oracleLeft = 0
  /\ browser = LaunchedBrowser
  /\ pc = "idle"
  /\ i = 0
  /\ messages = <<>>
  /\ snapshot = NoSnapshot
  /\ response = NoChoice
  /\ result = NoResult
  /\ ret = NoReturn
  /\ confirmCalls = 0
  /\ allowed = "none"
  /\ execCalls = 0
  /\ pageCalls = <<>>
  /\ waited = 0
  /\ snapshotsTaken = 0
  /\ oracleCalls = 0
  /\ approved = FALSE
  /\ gate = NoGate
  /\ dom = NoDom
  /\ io = NoReads
  /\ \E live \in LivePages, b \in SnapshotBrowsers :
       call = [NoCall EXCEPT !.applied = "page", !.browser = b, !.live = live]

\* snapshot = await browser.getSnapshot()
CallSnapshot ==
  /\ call.applied = "page"
  /\ call' = [call EXCEPT !.applied = "snapshot",
                          !.read = getSnapshot(call.live, call.browser)]
  /\ UNCHANGED <<loop, gate, dom, io>>

NextSnapshot == CallSnapshot

SpecSnapshot == InitSnapshot /\ [][NextSnapshot]_vars

(***************************************************************************)
(* Calls of the gate one after another, on the same pattern objects.  Any  *)
(* call may be kept as the reference that later calls are compared with.   *)
(***************************************************************************)
GateNames == {"click_element", "navigate"}
GateArgs ==
  {EmptyArgs} \cup {"element_id" :> v : v \in {Num(1), Num(3), Num(4), Num(9), Str("1")}}
GateSnapshots == {SnapshotA, PageWords, PageFields}

InitGate ==
  /\ hasConfirm = FALSE
  /\ tracked = FALSE
  /\ oracleLeft = 0
  /\ browser = LaunchedBrowser
  /\ pc = "idle"
  /\ i = 0
  /\ messages = <<>>
  /\ snapshot = NoSnapshot
  /\ response = NoChoice
  /\ result = NoResult
  /\ ret = NoReturn
  /\ confirmCalls = 0
  /\ allowed = "none"
  /\ execCalls = 0
  /\ pageCalls = <<>>
  /\ waited = 0
  /\ snapshotsTaken = 0
  /\ oracleCalls = 0
  /\ approved = FALSE
  /\ call = NoCall
  /\ gate = NoGate
  /\ dom = NoDom
  /\ io = NoReads

\* the gate's state after checkDestructiveAction(toolName, args, s)
Gated(toolName, args, s, phase) ==
  LET run == GateRun(toolName, args, s, gate.lastIndexes)
      input == [toolName |-> toolName, args |-> args, snapshot |-> s]
  IN  [phase |-> phase,
       lastIndexes |-> run.lastIndexes,
       input |-> input,
       left |-> [toolName |-> toolName, args |-> run.args, snapshot |-> run.snapshot],
       verdict |-> run.verdict,
       ref |-> IF phase = "reference" THEN [input |-> input, verdict |-> run.verdict]
                                      ELSE gate.ref]

\* a call that is kept as the reference
GateReference ==
  /\ \E toolName \in GateNames, args \in GateArgs, s \in GateSnapshots :
       gate' = Gated(toolName, args, s, "reference")
  /\ UNCHANGED <<loop, call, dom, io>>

\* any other call
GateAgain ==
  /\ gate.phase # "none"
  /\ \E toolName \in GateNames, args \in GateArgs, s \in GateSnapshots :
       gate' = Gated(toolName, args, s, "again")
  /\ UNCHANGED <<loop, call, dom, io>>

NextGate == GateReference \/ GateAgain

SpecGate == InitGate /\ [][NextGate]_vars

(***************************************************************************)
(* The page script on every document of a bounded set: the snapshot is     *)
(* captured, captured once more, and the descriptors of its elements are   *)
(* resolved against the document.                                          *)
(***************************************************************************)
\* Elements below the body in the small documents.
MaxNodes == 2

T_PayAll == <<"P","a","y"," ","a","l","l">>
T_Href == <<"/","c","a","r","t">>

Btn(text) == DomNode("button", "", text)

NodeKinds ==
  { Btn(T_Pay),
    Btn(T_PayAll),
    DomNode("div", "", NoText),
    DomNode("div", "tab", T_Home),
    DomNode("div", "button", T_Buy),
    [DomNode("a", "", NoText) EXCEPT !.href = T_Href],
    [Btn(T_Pay) EXCEPT !.stacked = TRUE],
    [Btn(T_Cancel) EXCEPT !.hidden = TRUE],
    [Btn(T_Cancel) EXCEPT !.small = TRUE] }

\* The parent of every element is the element before it or one of that
\* element's ancestors.
RECURSIVE IsAncestorOrSelf(_, _, _)
IsAncestorOrSelf(parents, a, k) ==
  IF k = a THEN TRUE ELSE IF k <= 1 THEN FALSE ELSE IsAncestorOrSelf(parents, a, parents[k])

InDocumentOrder(parents) ==
  \A k \in 2..Len(parents) :
    /\ parents[k] \in 1..(k - 1)
    /\ IsAncestorOrSelf(parents, parents[k], k - 1)

SmallDocuments ==
  UNION { { [k \in 1..(n + 1) |->
               IF k = 1 THEN Body ELSE [kinds[k - 1] EXCEPT !.parent = parents[k]]] :
              kinds \in [1..n -> NodeKinds],
              parents \in {ps \in [1..(n + 1) -> 0..n] : ps[1] = 0 /\ InDocumentOrder(ps)} } :
          n \in 0..MaxNodes }

\* n buttons next to one another, and the same inside a tab
Flat(n) == [k \in 1..(n + 1) |-> IF k = 1 THEN Body ELSE Btn(T_Buy)]
Nested(n) ==
  [k \in 1..(n + 2) |->
     IF k = 1 THEN Body
     ELSE IF k = 2 THEN DomNode("div", "tab", NoText)
     ELSE [Btn(T_Buy) EXCEPT !.parent = 2]]

LargeDocuments ==
  {Flat(n) : n \in {MAX_ELEMENTS - 1, MAX_ELEMENTS, MAX_ELEMENTS + 1}}
    \cup {Nested(MAX_ELEMENTS)}

\* three buttons alike in tag, role, name and type, with different texts
ButtonTexts == {T_Pay, T_PayAll, T_Cancel, T_Buy}
ButtonRows ==
  { <<Body, Btn(texts[1]), Btn(texts[2]), Btn(texts[3])>> :
      texts \in {t \in [1..3 -> ButtonTexts] : t[1] # t[2] /\ t[1] # t[3] /\ t[2] # t[3]} }

Documents == SmallDocuments \cup ButtonRows \cup LargeDocuments

InitPage ==
  /\ hasConfirm = FALSE
  /\ tracked = FALSE
  /\ oracleLeft = 0
  /\ browser = LaunchedBrowser
  /\ pc = "idle"
  /\ i = 0
  /\ messages = <<>>
  /\ snapshot = NoSnapshot
  /\ response = NoChoice
  /\ result = NoResult
  /\ ret = NoReturn
  /\ confirmCalls = 0
  /\ allowed = "none"
  /\ execCalls = 0
  /\ pageCalls = <<>>
  /\ waited = 0
  /\ snapshotsTaken = 0
  /\ oracleCalls = 0
  /\ approved = FALSE
  /\ call = NoCall
  /\ gate = NoGate
  /\ io = NoReads
  /\ \E doc \in Documents : dom = [NoDom EXCEPT !.doc = doc, !.phase = "loaded"]

\* page.evaluate(collectSnapshotScript)
CapturePage ==
  /\ dom.phase = "loaded"
  /\ LET got == collectSnapshotScript(dom.doc, dom.seen)
     IN  dom' = [dom EXCEPT !.phase = "captured", !.snap = got.elements, !.seen = got.seen]
  /\ UNCHANGED <<loop, call, gate, io>>

\* page.evaluate(collectSnapshotScript) once more, nothing else in between
CapturePageAgain ==
  /\ dom.phase = "captured"
  /\ LET got == collectSnapshotScript(dom.doc, dom.seen)
     IN  dom' = [dom EXCEPT !.phase = "recaptured", !.again = got.elements,
                            !.seen = got.seen]
  /\ UNCHANGED <<loop, call, gate, io>>

\* locatorFromSelector(page, el.selector) / findBySelector() for an element
\* of the snapshot
ResolveDescriptor ==
  /\ dom.phase = "captured"
  /\ \E e \in 1..Len(dom.snap) :
       dom' = [dom EXCEPT !.phase = "resolved", !.target = e,
                          !.found = ResolveSelector(dom.doc, dom.snap[e].selector)]
  /\ UNCHANGED <<loop, call, gate, io>>

NextPage == CapturePage \/ CapturePageAgain \/ ResolveDescriptor

SpecPage == InitPage /\ [][NextPage]_vars

(***************************************************************************)
(* One call of BrowserController.getSnapshot as the page operations it     *)
(* starts and the order in which they settle.  `inflight` holds the        *)
(* operations started and not yet settled.                                 *)
(***************************************************************************)
TitleRead(k) == <<"page.title", k>>
LoadWait == <<"page.waitForLoadState", 0>>
ScriptRead == <<"page.evaluate", 0>>

InitReads ==
  /\ hasConfirm = FALSE
  /\ tracked = FALSE
  /\ oracleLeft = 0
  /\ browser = LaunchedBrowser
  /\ pc = "idle"
  /\ i = 0
  /\ messages = <<>>
  /\ snapshot = NoSnapshot
  /\ response = NoChoice
  /\ result = NoResult
  /\ ret = NoReturn
  /\ confirmCalls = 0
  /\ allowed = "none"
  /\ execCalls = 0
  /\ pageCalls = <<>>
  /\ waited = 0
  /\ snapshotsTaken = 0
  /\ oracleCalls = 0
  /\ approved = FALSE
  /\ call = NoCall
  /\ gate = NoGate
  /\ dom = NoDom
  /\ \E n \in 1..(MaxTabs + 1) : io = [NoReads EXCEPT !.pages = n]

\* Promise.all(pages.map(async (p, i) => ... await p.title() ...)): map runs
\* every callback up to its first await, so title() is called on every page
\* before any of the calls settles
StartTitleReads ==
  /\ io.pc = "idle"
  /\ io' = [io EXCEPT !.pc = "titles",
                      !.inflight = {TitleRead(k) : k \in 1..io.pages},
                      !.titles = [k \in 1..io.pages |-> "pending"]]
  /\ UNCHANGED <<loop, call, gate, dom>>

\* one title() settles: its title, or the placeholder when it rejected; after
\* the last one Promise.all resolves and page.waitForLoadState is called
TitleSettles ==
  /\ io.pc = "titles"
  /\ \E k \in 1..io.pages, outcome \in {"title", "(loading)"} :
       /\ TitleRead(k) \in io.inflight
       /\ LET left == io.inflight \ {TitleRead(k)}
          IN  io' = [io EXCEPT !.titles[k] = outcome,
                               !.inflight = IF left = {} THEN {LoadWait} ELSE left,
                               !.pc = IF left = {} THEN "wait" ELSE "titles"]
  /\ UNCHANGED <<loop, call, gate, dom>>

\* waitForLoadState(...).catch(() => {}) settles either way; getPageSnapshot
\* is called
WaitSettles ==
  /\ io.pc \in {"wait", "wait again"}
  /\ io' = [io EXCEPT !.inflight = {ScriptRead},
                      !.pc = IF io.pc = "wait" THEN "evaluate" ELSE "evaluate again"]
  /\ UNCHANGED <<loop, call, gate, dom>>

\* getPageSnapshot settles: return, retry after a delay when the context was
\* destroyed on the first attempt, throw otherwise
ScriptSettles ==
  /\ io.pc \in {"evaluate", "evaluate again"}
  /\ \E read \in {"ok"} \cup ReadErrors :
       io' = [io EXCEPT !.inflight = {},
                        !.error = IF read = "ok" THEN "" ELSE read,
                        !.pc = IF read = "ok" THEN "returned"
                               ELSE IF io.pc = "evaluate" /\ IsContextDestroyed(read)
                                 THEN "delay"
                                 ELSE "threw"]
  /\ UNCHANGED <<loop, call, gate, dom>>

\* await this.#delay() is over; page.waitForLoadState is called again
DelayElapses ==
  /\ io.pc = "delay"
  /\ io' = [io EXCEPT !.inflight = {LoadWait}, !.pc = "wait again", !.error = ""]
  /\ UNCHANGED <<loop, call, gate, dom>>

NextReads ==
  StartTitleReads \/ TitleSettles \/ WaitSettles \/ ScriptSettles \/ DelayElapses

SpecReads == InitReads /\ [][NextReads]_vars

(***************************************************************************)
(* Properties.  Chosen: the current cycle's decision is a tool call.       *)
(***************************************************************************)
Chosen == response.present /\ response.calls # <<>>
DestructiveClick == Chosen /\ TheName = "click_element" /\ Security.destructive
TerminalNames == {"task_done", "request_user_input"}
Folded == messages[Len(messages)] = ToolTurn(TheCall, result)

\* C1: when the chosen action is a destructive click and getUserConfirmation
\* exists and resolves false, executeTool is not called, no page call is made
\* for the action, and the result folded into the transcript is the failure
\* 'User denied the action.'.
C1_DenialSkipsExecution ==
  allowed = "false" =>
    /\ hasConfirm /\ DestructiveClick
    /\ confirmCalls = 1
    /\ execCalls = 0
    /\ pageCalls = <<>>
    /\ waited = 0
    /\ pc \in {"perceive", "done"}
    /\ ~result.success /\ ~result.stop
    /\ result.message = [text |-> "User denied the action.", arg |-> Undefined, hint |-> ""]
    /\ Folded
    /\ messages[Len(messages)].content.error

C1_Denied ==
  /\ allowed = "false"
  /\ snapshot = SnapshotA
  /\ TheCall.id = "call_1"
  /\ messages[Len(messages)].role = "tool"

\* C2: with a confirmation capability, every cycle whose chosen action is a
\* destructive click calls getUserConfirmation before executeTool, whether or
\* not an earlier destructive click of the run was approved: executeTool is
\* called in such a cycle only after that cycle's own approval.
C2_EveryDestructiveClickGated ==
  (hasConfirm /\ DestructiveClick) =>
    /\ confirmCalls = 1
    /\ pc = "confirm" => (allowed = "none" /\ execCalls = 0)
    /\ execCalls > 0 => allowed = "true"
    /\ allowed = "false" => execCalls = 0

C2_GatedAgainAfterApproval ==
  /\ approved
  /\ pc = "confirm"
  /\ allowed = "none"
  /\ DestructiveClick
  /\ i > 0

\* C3 (as stated): a run in which every decision of the oracle was plain text
\* or a non-terminal action ends, once the action of its last cycle has been
\* dealt with, only by exhaustion: after exactly 80 snapshots and 80 decisions
\* it returns done=false with 'Max iterations reached'.
C3_NonTerminalOracleExhausts ==
  (/\ pc \in {"done", "rejected:executeTool", "rejected:logToolCall"}
   /\ response.present
   /\ Chosen => TheName \notin TerminalNames)
    => /\ pc = "done"
       /\ ret = Exhausted
       /\ i = MAX_ITERATIONS
       /\ snapshotsTaken = MAX_ITERATIONS
       /\ oracleCalls = MAX_ITERATIONS

\* The run rejects in its first cycle on a non-terminal action.
C3_EndsBeforeCeiling ==
  /\ pc = "rejected:executeTool"
  /\ i = 0
  /\ oracleCalls = 1
  /\ TheName = "scroll"

\* C4: when the first decision is task_done with a string result, the run
\* takes one snapshot and one decision, executeTool can only resolve with the
\* stop flag, and the run returns done=true with the summary as result.
C4_TaskDoneFirst ==
  (/\ oracleCalls = 1
   /\ Chosen
   /\ TheName = "task_done"
   /\ TypeOf(Arg(TheArgs, "result")) = "string")
    => /\ snapshotsTaken = 1
       /\ i = 0
       /\ confirmCalls = 0
       /\ execCalls = 1
       /\ pc \in {"execute", "done"}
       /\ pc = "execute" =>
            \A out \in ToolOutcomes :
              ~out.threw /\ out.result.stop /\ out.trace = <<>>
       /\ pc = "done" =>
            /\ ret.done
            /\ ret.result = [text |-> "", arg |-> Arg(TheArgs, "result"), hint |-> ""]
            /\ ret.error = NoReturn.error
            /\ pageCalls = <<>>

C4_DoneAfterOneCycle ==
  /\ pc = "done"
  /\ ret.done
  /\ oracleCalls = 1
  /\ Chosen
  /\ TheName = "task_done"
  /\ ret.result.arg = Str("summary")

\* The page calls of a click, by tier.
Tier1 == "locator.click"
Tier2 == "locator.click.force"
Tier3 == "clickViaEvaluate"
At(trace, name) == {k \in 1..Len(trace) : trace[k] = name}

\* A call of executeTool that reached clickElement on an element of the
\* snapshot that is not a wrapper card.
PlainClick ==
  /\ call.applied = "tool"
  /\ call.name = "click_element"
  /\ TypeOf(Arg(call.args, "element_id")) = "number"
  /\ HasElement(call.snapshot, IdOf(Arg(call.args, "element_id")))
  /\ ~FindElement(call.snapshot, IdOf(Arg(call.args, "element_id"))).disabled
  /\ ~IsWrapper(FindElement(call.snapshot, IdOf(Arg(call.args, "element_id"))))

\* C5: in clickElement on a non-wrapper element, the forced click is made
\* only right after a failed native click, the script-level click only right
\* after a failed forced click, each at most once; after a native click that
\* succeeds no other tier is called.
C5_TierOrder ==
  PlainClick =>
    LET trace == call.outcome.trace
        tape == call.tape
    IN  /\ \A name \in {Tier1, Tier2, Tier3} : Cardinality(At(trace, name)) <= 1
        /\ \A k \in At(trace, Tier2) : k > 1 /\ trace[k - 1] = Tier1 /\ ~tape[k - 1]
        /\ \A k \in At(trace, Tier3) : k > 1 /\ trace[k - 1] = Tier2 /\ ~tape[k - 1]
        /\ \A k \in At(trace, Tier1) :
             /\ tape[k] => (k = Len(trace) /\ call.outcome.result.success)
             /\ ~tape[k] => (k < Len(trace) /\ trace[k + 1] = Tier2)
        /\ \A k \in At(trace, Tier2) :
             /\ tape[k] => (k = Len(trace) /\ call.outcome.result.success)
             /\ ~tape[k] => (k < Len(trace) /\ trace[k + 1] = Tier3)
        /\ \A k \in At(trace, Tier3) :
             k = Len(trace) /\ (call.outcome.result.success <=> tape[k])

C5_AllTiersTried ==
  /\ PlainClick
  /\ At(call.outcome.trace, Tier1) # {}
  /\ At(call.outcome.trace, Tier2) # {}
  /\ At(call.outcome.trace, Tier3) # {}
  /\ call.outcome.result.success

\* C6 (as stated): a failure of a page call made while executing the chosen
\* action never escapes from executeTool; once executeTool is over, its result
\* has been folded into the transcript, and a result without the stop flag
\* sends the loop to the next cycle (or, after the last one, to exhaustion).
C6_ActionFailuresStayLocal ==
  (execCalls = 1 /\ pc # "execute") =>
    /\ pc # "rejected:executeTool"
    /\ Folded
    /\ result.stop => (pc = "done" /\ ret = Stopped(result))
    /\ ~result.stop => (pc = "perceive" \/ (pc = "done" /\ ret = Exhausted))

\* page.goto fails under navigate: runAgent rejects with nothing folded.
C6_NavigateEscapes ==
  /\ pc = "rejected:executeTool"
  /\ TheName = "navigate"
  /\ pageCalls = <<"page.goto">>
  /\ messages[Len(messages)].role = "assistant"

\* What a call of executeTool leaves untouched when it refuses its arguments.
Refused ==
  /\ ~call.outcome.threw
  /\ ~call.outcome.result.success
  /\ ~call.outcome.result.stop
  /\ call.outcome.trace = <<>>
  /\ call.outcome.waited = 0
  /\ call.outcome.browser = call.browser

\* The tools whose case tests its required arguments.
ValidatedTools ==
  {"navigate", "switch_tab", "click_element", "type_text", "select_option",
   "set_checkbox", "scroll"}

C8_NoCapabilityExecutes ==
  (~hasConfirm /\ DestructiveClick) =>
    /\ confirmCalls = 0
    /\ allowed = "none"
    /\ execCalls = 1
    /\ pc \in {"execute", "perceive", "done"}
    /\ pc = "execute" => \A out \in ToolOutcomes : ~out.threw
    /\ pc # "execute" =>
         /\ result \in {out.result : out \in ToolOutcomes}
         /\ result.message.text # "User denied the action."
         /\ Folded

C8_ClickedUnconfirmed ==
  /\ ~hasConfirm
  /\ DestructiveClick
  /\ pc = "perceive"
  /\ result.success
  /\ pageCalls # <<>>

\* C9: getUserConfirmation is called at most once in a cycle, and only in a
\* cycle whose chosen action is a click_element for which
\* checkDestructiveAction returned destructive=true; a cycle with a plain-text
\* decision, another tool or a click with destructive=false never calls it.
C9_ConfirmationOnlyWhenDestructive ==
  /\ confirmCalls \in {0, 1}
  /\ confirmCalls = 1 => (hasConfirm /\ DestructiveClick)
  /\ allowed # "none" => confirmCalls = 1
  /\ pc = "confirm" => confirmCalls = 1

C9_AskedOnce ==
  /\ confirmCalls = 1
  /\ allowed = "true"
  /\ pc = "perceive"
  /\ snapshot = SnapshotB
  /\ result.success

\* C10: checkDestructiveAction returns destructive=false for every tool name
\* other than click_element whatever the arguments, and for click_element
\* when element_id is missing, is not a number, or is the id of no element of
\* the snapshot.
C10_NotDestructiveOutsideClicks ==
  (/\ call.applied = "gate"
   /\ \/ call.name # "click_element"
      \/ TypeOf(Arg(call.args, "element_id")) # "number"
      \/ ~HasElement(call.snapshot, IdOf(Arg(call.args, "element_id"))))
    => ~call.verdict.destructive

C10_NavigateWithDestructiveId ==
  /\ call.applied = "gate"
  /\ call.name = "navigate"
  /\ call.snapshot = SnapshotA
  /\ Arg(call.args, "element_id") = Num(1)
  /\ ~call.verdict.destructive

(***************************************************************************)
(* A keyword as a whole word or phrase: an occurrence of one alternative   *)
(* of the pattern table that neither starts nor ends inside a word, the    *)
(* letters of either script, digits and the underscore making up words.    *)
(***************************************************************************)
Alternatives ==
  UNION {{DESTRUCTIVE_PATTERNS[k][j] : j \in 1..Len(DESTRUCTIVE_PATTERNS[k])} :
           k \in 1..Len(DESTRUCTIVE_PATTERNS)}
PatternAtoms == UNION {{alt[a] : a \in 1..Len(alt)} : alt \in Alternatives}
CyrillicChars == PatternAtoms \ (WordChars \cup SpaceChars \cup {"WS*", "ANY*"})
IsLetterAt(text, p) ==
  p >= 1 /\ p <= Len(text) /\ text[p] \in WordChars \cup CyrillicChars
OutsideWord(text, p) == IsLetterAt(text, p) # IsLetterAt(text, p + 1)
ContainsKeyword(text) ==
  \E alt \in Alternatives :
    \E start \in 0..Len(text) :
      /\ OutsideWord(text, start)
      /\ \E end \in MatchEnds(alt, text, {start}) : OutsideWord(text, end)

\* The text surface of an element, in lower case.
Surface(el) == ToLowerCase(JoinNonEmpty(<<el.text, el.value, el.title, el.labelText>>))

\* A call of the gate for a click on an element of the snapshot.
GatedClick ==
  /\ call.applied = "gate"
  /\ call.name = "click_element"
  /\ TypeOf(Arg(call.args, "element_id")) = "number"
  /\ HasElement(call.snapshot, IdOf(Arg(call.args, "element_id")))
GatedElement == FindElement(call.snapshot, IdOf(Arg(call.args, "element_id")))

\* C11 (as stated): for a click on an element of the snapshot the verdict is
\* destructive exactly when the element's text surface contains a keyword of
\* the pattern table as a whole word or phrase, in any letter case; the text
\* 'Delete account' is destructive with the text as description, descriptions
\* are the first 80 characters of the element text, and 'Cancel' is not
\* destructive.
C11_DestructiveIffKeyword ==
  GatedClick =>
    /\ call.verdict.destructive <=> ContainsKeyword(Surface(GatedElement))
    /\ GatedElement.text = T_DeleteAccount =>
         call.verdict = [destructive |-> TRUE, description |-> T_DeleteAccount]
    /\ GatedElement.text = T_Cancel => ~call.verdict.destructive
    /\ (call.verdict.destructive /\ Trim(GatedElement.text) # <<>>) =>
         call.verdict.description = Trim(Slice(GatedElement.text, DESCRIPTION_MAX))

\* The keyword оплатить, alone on a button, is not destructive.
C11_CyrillicKeywordMissed ==
  /\ GatedClick
  /\ GatedElement.text = T_Oplatit
  /\ ContainsKeyword(Surface(GatedElement))
  /\ ~call.verdict.destructive

\* C12: checkDestructiveAction is deterministic and free of side effects: a
\* call leaves the arguments, the snapshot and every pattern object as it
\* found them, its verdict is the function of (toolName, args, snapshot)
\* alone, and a call with the inputs of an earlier call returns the verdict
\* of that call whatever calls were made in between.
C12_GateIsPure ==
  gate.phase # "none" =>
    /\ gate.lastIndexes = FreshPatterns
    /\ gate.left = gate.input
    /\ gate.verdict =
         checkDestructiveAction(gate.input.toolName, gate.input.args, gate.input.snapshot)
    /\ gate.input = gate.ref.input => gate.verdict = gate.ref.verdict

C12_SameCallAfterOthers ==
  /\ gate.phase = "again"
  /\ gate.input = gate.ref.input
  /\ gate.input.snapshot = PageWords
  /\ gate.verdict.destructive
  /\ gate.verdict = gate.ref.verdict

\* The chosen action is a click on an element the snapshot flags disabled,
\* and executeTool has been called for it.
DisabledClick ==
  /\ Chosen
  /\ TheName = "click_element"
  /\ TypeOf(Arg(TheArgs, "element_id")) = "number"
  /\ HasElement(snapshot, IdOf(Arg(TheArgs, "element_id")))
  /\ FindElement(snapshot, IdOf(Arg(TheArgs, "element_id"))).disabled
  /\ execCalls = 1

\* C13: a click on an element flagged disabled is refused before any click
\* tier: executeTool resolves with success=false and the message that tells
\* to fill required fields or wait, makes no page call (clickElement is not
\* called), and the loop goes on to the next cycle.
C13_DisabledClickRefused ==
  DisabledClick =>
    /\ pc \in {"execute", "perceive", "done"}
    /\ pc = "execute" =>
         \A out \in ToolOutcomes :
           /\ ~out.threw
           /\ out.trace = <<>>
           /\ out.result = Failure(M_Disabled, Undefined)
    /\ pc # "execute" =>
         /\ result = Failure(M_Disabled, Undefined)
         /\ ~result.success /\ ~result.stop
         /\ pageCalls = <<>>
         /\ pc = "done" => ret = Exhausted

C13_RefusedAndContinued ==
  /\ DisabledClick
  /\ pc = "perceive"
  /\ i = 1
  /\ result.message.text = M_Disabled
  /\ allowed = "true"

\* A call of executeTool for a form tool with well-typed arguments whose
\* target element the snapshot flags disabled.
FormTools == {"type_text", "select_option", "set_checkbox"}
DisabledFormCall ==
  /\ call.applied = "tool"
  /\ call.name \in FormTools
  /\ ~BadRequiredArgument(call.name, call.args)
  /\ TypeOf(Arg(call.args, "element_id")) = "number"
  /\ HasElement(call.snapshot, IdOf(Arg(call.args, "element_id")))
  /\ FindElement(call.snapshot, IdOf(Arg(call.args, "element_id"))).disabled

\* C14 (as stated): type_text, select_option and set_checkbox on an element
\* flagged disabled resolve with success=false without any page call.
C14_DisabledFormRefused ==
  DisabledFormCall =>
    /\ ~call.outcome.threw
    /\ ~call.outcome.result.success
    /\ call.outcome.trace = <<>>

\* type_text fills a disabled input and reports success.
C14_DisabledInputFilled ==
  /\ DisabledFormCall
  /\ call.name = "type_text"
  /\ call.snapshot = PageForm
  /\ call.outcome.trace = <<"locator.fill.empty", "locator.fill">>
  /\ call.outcome.result.success

\* C15: when the first page read fails with a context-destroyed error,
\* getSnapshot waits once for the load state and reads once more; the second
\* read, when it succeeds, is the snapshot returned, and when it fails its
\* error is thrown with no third read; a first failure of another class is
\* thrown at once with no second read.
Snapped == call.applied = "snapshot"
Reads == Cardinality(At(call.read.trace, "page.evaluate"))
C15_RetryOnceWhenDestroyed ==
  Snapped =>
    LET trace == call.read.trace
        first == CHOOSE k \in At(trace, "page.evaluate") :
                   \A j \in At(trace, "page.evaluate") : k <= j
    IN  /\ Reads \in {1, 2}
        /\ call.live.reads[1] = "ok" =>
             /\ Reads = 1
             /\ call.read.ok /\ call.read.snapshot = call.live.content[1]
        /\ (call.live.reads[1] # "ok" /\ ~IsContextDestroyed(call.live.reads[1])) =>
             /\ Reads = 1
             /\ first = Len(trace)
             /\ ~call.read.ok /\ call.read.error = call.live.reads[1]
        /\ IsContextDestroyed(call.live.reads[1]) =>
             /\ Reads = 2
             /\ Cardinality({k \in At(trace, "page.waitForLoadState") : k > first}) = 1
             /\ trace[Len(trace)] = "page.evaluate"
             /\ call.live.reads[2] = "ok" =>
                  call.read.ok /\ call.read.snapshot = call.live.content[2]
             /\ call.live.reads[2] # "ok" =>
                  ~call.read.ok /\ call.read.error = call.live.reads[2]

C15_RetryReturned ==
  /\ Snapped
  /\ call.live.reads = <<E_Destroyed, "ok">>
  /\ call.live.content[1] # call.live.content[2]
  /\ call.read.ok
  /\ call.read.snapshot = call.live.content[2]
  /\ Reads = 2

\* The chosen tool call carries a payload that JSON.parse rejects.
Unparseable == Chosen /\ TheCall.arguments.kind = "malformed"
AnyBrowser == {b \in [pages : 1..(MaxTabs + 1), page : 0..MaxTabs] : b.page < b.pages}

\* C16: a tool call whose arguments are not parseable JSON is carried out
\* with the empty argument set: the run does not reject, the call is recorded
\* with its raw payload, the gate sees no element id (no confirmation),
\* executeTool is called once with {} and resolves, and its result is folded.
C16_UnparseableMeansEmpty ==
  Unparseable =>
    /\ TheArgs = EmptyArgs
    /\ ~Security.destructive
    /\ confirmCalls = 0
    /\ execCalls = 1
    /\ pc \in {"execute", "perceive", "done"}
    /\ pc = "execute" =>
         /\ messages[Len(messages)] = CallTurn(TheCall)
         /\ \A out \in ToolOutcomes : ~out.threw
    /\ pc # "execute" =>
         /\ Folded
         /\ messages[Len(messages) - 1] = CallTurn(TheCall)
         /\ messages[Len(messages) - 1].tool_calls[1].arguments = TheCall.arguments
         /\ \E b \in AnyBrowser :
              \E tape \in TapesOfLength(CallsOf(TheName, EmptyArgs, snapshot)) :
                result = executeTool(TheName, EmptyArgs, snapshot, tape, b).result
         /\ pc = "done" => (ret = Exhausted \/ ret = Stopped(result))

C16_TruncatedClickFolded ==
  /\ Unparseable
  /\ TheCall.arguments.val # EmptyArgs
  /\ snapshot = SnapshotA
  /\ pc = "perceive"
  /\ result = Failure("element_id must be a number", Undefined)
  /\ Folded

\* A step in which the oracle answers with a choice that has no tool call.
TextStep == pc = "decide" /\ response'.present /\ response'.calls = <<>>

\* C17: on a choice with no tool call runAgent appends exactly one assistant
\* turn, which carries the text of the choice (a placeholder when the choice
\* has no text), asks for no confirmation, calls neither executeTool nor the
\* page, and goes on to the next cycle with the loop counter advanced by one
\* (to exhaustion when that was the last cycle).
C17_TextTurnOnlyAppends ==
  [][TextStep =>
       /\ Len(messages') = Len(messages) + 1
       /\ SubSeq(messages', 1, Len(messages)) = messages
       /\ messages'[Len(messages')].role = "assistant"
       /\ messages'[Len(messages')].tool_calls = <<>>
       /\ response'.content # "" => messages'[Len(messages')].text = response'.content
       /\ response'.content = "" =>
            messages'[Len(messages')].text =
              (IF response'.finish = "stop" THEN "(no content)" ELSE "")
       /\ confirmCalls' = 0 /\ allowed' = "none"
       /\ execCalls' = 0
       /\ pageCalls' = <<>> /\ waited' = 0
       /\ browser' = browser
       /\ result' = NoResult
       /\ i' = i + 1
       /\ pc' = (IF i + 1 < MAX_ITERATIONS THEN "perceive" ELSE "done")
       /\ pc' = "done" => ret' = Exhausted
  ]_vars

C17_SecondTextTurn ==
  /\ pc = "perceive"
  /\ i = 2
  /\ response.present /\ response.calls = <<>>
  /\ response.finish = "length"
  /\ messages[Len(messages)] = AssistantTurn("cut")
  /\ messages[Len(messages) - 2] = AssistantTurn("(no content)")

\* A step in which the oracle answers without a choice.
NoChoiceStep == pc = "decide" /\ ~response'.present

Batched == Chosen /\ Len(response.calls) > 1

\* C19: in a cycle executeTool is called at most once and the user is asked
\* at most once; of the tool calls of a choice the first, and only the first,
\* is recorded in the assistant turn, and the one result folded after it is
\* the denial or a result of executing that first call; a failure that does
\* not stop the run leads to the next cycle without a second dispatch.
C19_OneActionPerCycle ==
  /\ execCalls <= 1
  /\ confirmCalls <= 1
  /\ Chosen =>
       LET first == response.calls[1]
           args  == ParseArguments(first.arguments)
           last  == Len(messages)
       IN  /\ pc \in {"confirm", "execute"} =>
                /\ messages[last] = CallTurn(first)
                /\ Len(messages[last].tool_calls) = 1
                /\ result = NoResult
           /\ pc \in {"perceive", "done"} =>
                /\ messages[last] = ToolTurn(first, result)
                /\ messages[last - 1] = CallTurn(first)
                /\ Len(messages[last - 1].tool_calls) = 1
                /\ messages[last - 1].tool_calls[1].id = first.id
                /\ messages[last - 2].role \notin {"assistant", "tool"}
                /\ execCalls = (IF allowed = "false" THEN 0 ELSE 1)
                /\ \/ allowed = "false" /\ result = Denied
                   \/ \E b \in AnyBrowser :
                        \E tape \in TapesOfLength(CallsOf(first.name, args, snapshot)) :
                          result = executeTool(first.name, args, snapshot, tape, b).result
                /\ ~result.stop =>
                     \/ pc = "perceive"
                     \/ pc = "done" /\ ret = Exhausted

C19_FirstOfTwoFailed ==
  /\ Batched
  /\ pc = "perceive"
  /\ response.calls[2] = C_TaskDone
  /\ ~result.success
  /\ execCalls = 1
  /\ pageCalls = <<>>
  /\ messages[Len(messages)] = ToolTurn(Click("call_9", Num(9)), result)
  /\ ret = NoReturn

\* The cycle of a terminal action has run to its end.
TerminalRan == Chosen /\ TheName \in TerminalNames /\ pc \in {"perceive", "done"}

\* C20: a terminal action stops the loop with done = true; after
\* request_user_input the returned userQuestion is present and is the
\* question, whatever the arguments were; after task_done the returned result
\* is the summary and userQuestion is absent.
C20_TerminalOutcomesDistinct ==
  TerminalRan =>
    /\ pc = "done"
    /\ ret.done
    /\ ret.error = ""
    /\ TheName = "request_user_input" =>
         /\ ret.userQuestion # Undefined
         /\ ret.userQuestion = Arg(TheArgs, "question")
    /\ TheName = "task_done" =>
         /\ ret.userQuestion = Undefined
         /\ TypeOf(Arg(TheArgs, "result")) = "string" =>
              ret.result = Success("", Arg(TheArgs, "result")).message

C20_QuestionMissing ==
  /\ TerminalRan
  /\ TheName = "request_user_input"
  /\ TheArgs = EmptyArgs
  /\ ret = [done |-> TRUE, result |-> Success("", Str("Need your input")).message,
            userQuestion |-> Undefined, error |-> ""]

\* C21: no step of runAgent shortens the transcript, and every turn of it
\* stays what it was; the one exception is the perception of the first cycle,
\* before any oracle call, which adds the rendered snapshot to the opening user
\* turn without appending a turn.
C21_TranscriptAppendOnly ==
  [][/\ Len(messages') >= Len(messages)
     /\ \A k \in 1..Len(messages) :
          \/ messages'[k] = messages[k]
          \/ /\ k = 2
             /\ i = 0 /\ oracleCalls = 0 /\ pc = "perceive"
             /\ Len(messages') = Len(messages)
             /\ messages'[2] = [messages[2] EXCEPT !.state = <<snapshot'>>]
  ]_vars

C21_SecondStateAppended ==
  /\ pc = "decide"
  /\ i = 1
  /\ oracleCalls = 1
  /\ Len(messages) = 5
  /\ Len(messages[2].state) = 1
  /\ messages[5] = StateTurn(snapshot)
  /\ messages[3].role = "assistant" /\ messages[4].role = "tool"

\* The turn at position k of the transcript records a tool call.
IsActionTurn(k) == messages[k].role = "assistant" /\ messages[k].tool_calls # <<>>
IsResultTurn(k) == messages[k].role = "tool"

\* C22: whenever the oracle is about to be called, every assistant turn with
\* a tool call holds one call and is directly followed by a tool turn with
\* the id of that call, that tool turn is not followed by another tool turn,
\* and every tool turn directly follows such an assistant turn.
C22_TranscriptWellPaired ==
  pc = "decide" =>
    \A k \in 1..Len(messages) :
      /\ IsActionTurn(k) =>
           /\ Len(messages[k].tool_calls) = 1
           /\ k < Len(messages)
           /\ IsResultTurn(k + 1)
           /\ messages[k + 1].tool_call_id = messages[k].tool_calls[1].id
           /\ k + 2 <= Len(messages) => ~IsResultTurn(k + 2)
      /\ IsResultTurn(k) => k > 1 /\ IsActionTurn(k - 1)

C22_PairedAfterDenial ==
  /\ pc = "decide"
  /\ i = 1
  /\ IsActionTurn(3)
  /\ messages[4] = ToolTurn(messages[3].tool_calls[1], Denied)

\* C23: the elements of a captured snapshot carry the ids 1..N in the order
\* in which the walk recorded them (document order), N is at most
\* MAX_ELEMENTS, and no id occurs twice.
C23_DenseIds ==
  dom.phase \in {"captured", "recaptured", "resolved"} =>
    /\ Len(dom.snap) <= MAX_ELEMENTS
    /\ \A k \in 1..Len(dom.snap) : dom.snap[k].id = k
    /\ \A j, k \in 1..Len(dom.snap) : dom.snap[j].id = dom.snap[k].id => j = k
    /\ \A k \in 1..(Len(dom.snap) - 1) : dom.snap[k].node < dom.snap[k + 1].node
    /\ {dom.snap[k].id : k \in 1..Len(dom.snap)} = 1..Len(dom.snap)

C23_CappedDocument ==
  /\ dom.phase = "captured"
  /\ Len(dom.doc) > MAX_ELEMENTS + 1
  /\ Len(dom.snap) = MAX_ELEMENTS
  /\ dom.snap[MAX_ELEMENTS].id = MAX_ELEMENTS
  /\ dom.snap[MAX_ELEMENTS].node = MAX_ELEMENTS + 1

\* The buttons of the document.
Buttons(doc) == {k \in 1..Len(doc) : doc[k].tag = "button"}

\* The document holds several buttons, all with the same role, name and
\* type, whose texts are not empty and differ from one another.
AlikeButtons(doc) ==
  /\ Cardinality(Buttons(doc)) >= 2
  /\ \A a, b \in Buttons(doc) :
       /\ doc[a].role = doc[b].role /\ doc[a].name = doc[b].name /\ doc[a].type = doc[b].type
       /\ Trim(InnerText(doc, a)) # <<>>
       /\ a # b => Trim(InnerText(doc, a)) # Trim(InnerText(doc, b))

\* A descriptor of a captured button of such a document has been resolved.
ButtonResolved ==
  /\ dom.phase = "resolved"
  /\ AlikeButtons(dom.doc)
  /\ dom.snap[dom.target].node \in Buttons(dom.doc)

\* C24: in a document of several alike buttons with different texts, the
\* descriptor derived for a captured button resolves to the button it was
\* derived from.
C24_DescriptorResolvesToSource ==
  ButtonResolved => dom.found = dom.snap[dom.target].node

C24_ResolvedToOtherButton ==
  /\ ButtonResolved
  /\ dom.doc = <<Body, Btn(T_PayAll), Btn(T_Pay), Btn(T_Cancel)>>
  /\ dom.snap[dom.target].node = 3
  /\ dom.snap[dom.target].selector.type = "xpath"
  /\ dom.found = 2

\* C25: a second capture of the same document, with nothing done in between,
\* yields the same elements in the same order, with the same ids, texts and
\* descriptors.
C25_CaptureIdempotent ==
  dom.phase = "recaptured" =>
    /\ Len(dom.again) = Len(dom.snap)
    /\ \A k \in 1..Len(dom.snap) :
         /\ dom.again[k].id = dom.snap[k].id
         /\ dom.again[k].node = dom.snap[k].node
         /\ dom.again[k].text = dom.snap[k].text
    /\ dom.again = dom.snap

C25_RecapturedWithDuplicate ==
  /\ dom.phase = "recaptured"
  /\ Len(dom.doc) = 3
  /\ Len(dom.snap) = 1
  /\ dom.doc[2] = dom.doc[3]
  /\ dom.doc[2].stacked
  /\ dom.again = dom.snap
  /\ dom.seen # {}

\* C26: at no moment of a getSnapshot call are two page operations in flight:
\* each one settles before the next is started.
C26_OneOperationInFlight == Cardinality(io.inflight) <= 1

C26_TitleReadsOverlap ==
  /\ io.pc = "titles"
  /\ io.pages = 2
  /\ io.inflight = {TitleRead(1), TitleRead(2)}

\* A call of executeTool for a click on an element of the snapshot that is
\* not disabled.
LiveClick ==
  /\ call.applied = "tool"
  /\ call.name = "click_element"
  /\ TypeOf(Arg(call.args, "element_id")) = "number"
  /\ HasElement(call.snapshot, IdOf(Arg(call.args, "element_id")))
  /\ ~FindElement(call.snapshot, IdOf(Arg(call.args, "element_id"))).disabled

\* C27: when executeTool reports such a click as failed, the native click,
\* the forced click and the script-level click have each been called and have
\* each failed.
C27_FailedOnlyAfterWholeChain ==
  (LiveClick /\ ~call.outcome.threw /\ ~call.outcome.result.success) =>
    \A tier \in {Tier1, Tier2, Tier3} :
      /\ At(call.outcome.trace, tier) # {}
      /\ \A k \in At(call.outcome.trace, tier) : ~call.tape[k]

C27_FailedBeforeAnyTier ==
  /\ LiveClick
  /\ ~call.outcome.threw
  /\ ~call.outcome.result.success
  /\ call.outcome.result.message.hint = M_ClickHint
  /\ call.outcome.trace = <<"locator.waitFor">>
  /\ At(call.outcome.trace, Tier1) = {}
  /\ At(call.outcome.trace, Tier3) = {}

\* A click on a wrapper card (div or span with role button) that got as far
\* as the clicks: waitFor and scrollIntoViewIfNeeded succeeded.
WrapperClick ==
  /\ LiveClick
  /\ IsWrapper(FindElement(call.snapshot, IdOf(Arg(call.args, "element_id"))))
  /\ Len(call.outcome.trace) >= 3

InnerLinkCalls == {"innerLink.waitFor", "innerLink.click"}

\* C28: on a wrapper card the script-level click is the first click made; if
\* it succeeds nothing else is called; if it fails, only calls on the inner
\* link follow, and the script-level click is not made a second time.
C28_WrapperScriptClickOnce ==
  WrapperClick =>
    LET trace == call.outcome.trace
    IN  /\ trace[3] = Tier3
        /\ call.tape[3] => (Len(trace) = 3 /\ call.outcome.result.success)
        /\ \A k \in 4..Len(trace) : trace[k] \in InnerLinkCalls
        /\ Cardinality(At(trace, Tier3)) = 1

C28_ScriptClickTwice ==
  /\ WrapperClick
  /\ call.outcome.trace =
       <<"locator.waitFor", "locator.scrollIntoViewIfNeeded", "clickViaEvaluate",
         "innerLink.waitFor", "innerLink.click", "locator.click",
         "locator.click.force", "clickViaEvaluate">>
  /\ call.outcome.result.success

\* A step in which getUserConfirmation resolves false.
DenialStep == pc = "confirm" /\ allowed' = "false"

\* C29: a denial produces the failure 'User denied the action.' without a
\* stop flag, the failure is appended to the transcript as the tool turn of
\* the denied call, nothing is executed, and runAgent does not return: the
\* loop counter advances and the next perception follows, unless that was the
\* last cycle, where the run ends exhausted (done = false).
C29_DenialCancelsOnlyTheAction ==
  [][DenialStep =>
       /\ result' = Denied
       /\ ~result'.stop /\ ~result'.success
       /\ messages' = Append(messages, ToolTurn(TheCall, Denied))
       /\ execCalls' = 0 /\ pageCalls' = <<>>
       /\ browser' = browser
       /\ i' = i + 1
       /\ pc' = (IF i + 1 < MAX_ITERATIONS THEN "perceive" ELSE "done")
       /\ ret' = (IF i + 1 < MAX_ITERATIONS THEN NoReturn ELSE Exhausted)
       /\ ~ret'.done
  ]_vars

C29_DecisionAfterDenial ==
  /\ pc = "decide"
  /\ i = 1
  /\ snapshotsTaken = 2
  /\ oracleCalls = 1
  /\ oracleLeft = 1
  /\ messages[4].role = "tool"
  /\ messages[4].content = [error |-> TRUE, message |-> Denied.message]
  /\ messages[5] = StateTurn(snapshot)
  /\ ret = NoReturn

\* The snapshot most recently rendered into the transcript.
LatestState ==
  LET k == CHOOSE k \in 1..Len(messages) :
             /\ messages[k].state # <<>>
             /\ \A j \in (k + 1)..Len(messages) : messages[j].state = <<>>
  IN  messages[k].state[Len(messages[k].state)]

\* C30: from the decision of a cycle to its end there has been exactly one
\* capture in that cycle, made after the previous cycle was folded; the
\* snapshot held for the gate and the dispatcher is that capture, the gate's
\* verdict is the verdict on it, and the result is a result of executing the
\* chosen call against it.
C30_SnapshotOfSameCycle ==
  /\ pc \in {"decide", "confirm", "execute"} =>
       /\ snapshotsTaken = i + 1
       /\ snapshot = LatestState
       /\ pc = "decide" /\ i > 0 => messages[Len(messages)] = StateTurn(snapshot)
  /\ (Chosen /\ pc = "confirm") =>
       checkDestructiveAction(TheName, TheArgs, LatestState).destructive
  /\ (Chosen /\ pc \in {"perceive", "done"}) =>
       /\ snapshot = LatestState
       /\ allowed = "none" /\ hasConfirm =>
            ~checkDestructiveAction(TheName, TheArgs, LatestState).destructive
       /\ allowed # "none" => checkDestructiveAction(TheName, TheArgs, LatestState).destructive
       /\ \/ allowed = "false" /\ result = Denied
          \/ \E b \in AnyBrowser :
               \E tape \in TapesOfLength(CallsOf(TheName, TheArgs, LatestState)) :
                 result = executeTool(TheName, TheArgs, LatestState, tape, b).result

C30_SecondCycleOnNewSnapshot ==
  /\ pc = "perceive"
  /\ i = 2
  /\ Chosen
  /\ TheName = "click_element"
  /\ messages[2].state = <<SnapshotA>>
  /\ snapshot = SnapshotB
  /\ LatestState = SnapshotB
  /\ Arg(TheArgs, "element_id") = Num(1)
  /\ result.success
  /\ allowed = "none"
  /\ hasConfirm

(***************************************************************************)
(* Calls of open_new_tab and switch_tab one after another on one           *)
(* controller, and getSnapshot between them.  call.browser is the          *)
(* controller before the last tool call and call.outcome.browser the       *)
(* controller now.                                                         *)
(***************************************************************************)
TabIndexes ==
  {Num(-1), Num(0), Half(0), Num(1), Half(1), Num(MaxTabs - 1), Num(MaxTabs)}

TabUrls == {Undefined, Str("x")}

TabPages ==
  {QuietPage,
   [QuietPage EXCEPT !.titles = <<FALSE, TRUE, TRUE>>],
   [QuietPage EXCEPT !.reads = <<E_Destroyed, "ok">>],
   [QuietPage EXCEPT !.reads = <<E_Timeout, "ok">>]}

InitTabs ==
  /\ hasConfirm = FALSE
  /\ tracked = FALSE
  /\ oracleLeft = 0
  /\ browser = LaunchedBrowser
  /\ pc = "idle"
  /\ i = 0
  /\ messages = <<>>
  /\ snapshot = NoSnapshot
  /\ response = NoChoice
  /\ result = NoResult
  /\ ret = NoReturn
  /\ confirmCalls = 0
  /\ allowed = "none"
  /\ execCalls = 0
  /\ pageCalls = <<>>
  /\ waited = 0
  /\ snapshotsTaken = 0
  /\ oracleCalls = 0
  /\ approved = FALSE
  /\ gate = NoGate
  /\ dom = NoDom
  /\ io = NoReads
  /\ call = [NoCall EXCEPT !.applied = "launched"]

\* executeTool(name, args, ...) on the controller as the last call left it
TabCall(name, args) ==
  \E tape \in TapesOfLength(CallsOf(name, args, NoSnapshot)) :
    call' = [call EXCEPT !.applied = "tool", !.name = name, !.args = args,
                         !.tape = tape, !.browser = call.outcome.browser,
                         !.outcome = executeTool(name, args, NoSnapshot, tape,
                                                 call.outcome.browser)]

OpenNewTab ==
  /\ call.outcome.browser.pages < MaxTabs
  /\ \E url \in TabUrls :
       TabCall("open_new_tab", IF url = Undefined THEN EmptyArgs ELSE "url" :> url)
  /\ UNCHANGED <<loop, gate, dom, io>>

SwitchTab ==
  /\ \E tabIndex \in TabIndexes : TabCall("switch_tab", "tab_index" :> tabIndex)
  /\ UNCHANGED <<loop, gate, dom, io>>

\* snapshot = await browser.getSnapshot()
TabSnapshot ==
  /\ call.applied = "tool"
  /\ \E live \in TabPages :
       call' = [call EXCEPT !.applied = "snapshot", !.live = live,
                            !.read = getSnapshot(live, call.outcome.browser)]
  /\ UNCHANGED <<loop, gate, dom, io>>

NextTabs == OpenNewTab \/ SwitchTab \/ TabSnapshot

SpecTabs == InitTabs /\ [][NextTabs]_vars

\* The controller has an active tab and it is one of the open tabs.
ActiveTabOpen(b) == b.page \in 0..(b.pages - 1)

\* The last tool call was a switch_tab that failed.
SwitchFailed ==
  /\ call.applied \in {"tool", "snapshot"}
  /\ call.name = "switch_tab"
  /\ ~call.outcome.result.success

\* C31: after any sequence of open_new_tab and switch_tab, whatever number
\* tab_index is, the controller's active tab is one of the open tabs, a
\* switch_tab that failed has left the active tab as it was, and a snapshot
\* taken afterwards reports an activeTabIndex that is an index of its tabs.
C31_OneActiveOpenTab ==
  /\ ActiveTabOpen(call.outcome.browser)
  /\ SwitchFailed => call.outcome.browser = call.browser
  /\ (call.applied = "snapshot" /\ call.read.ok) =>
       \E k \in 1..Len(call.read.tabs) : call.read.tabs[k].index = call.read.activeTabIndex

\* switch_tab with tab_index 0.5 has failed and left the controller without
\* an active page, and the getSnapshot after it has thrown.
C31_ActiveTabLost ==
  /\ SwitchFailed
  /\ Arg(call.args, "tab_index") = Half(0)
  /\ ActiveTabOpen(call.browser)
  /\ call.outcome.browser.page = NoPage
  /\ call.applied = "snapshot"
  /\ ~call.read.ok
  /\ call.read.error = E_NotLaunched

\* The four tools that act on an element of the snapshot.
ElementTools == {"click_element", "type_text", "select_option", "set_checkbox"}

\* element_id is a number that is the id of no element of the snapshot.
StaleElementId ==
  /\ TypeOf(Arg(call.args, "element_id")) = "number"
  /\ ~HasElement(call.snapshot, IdOf(Arg(call.args, "element_id")))

\* C32: click_element, type_text, select_option and set_checkbox called with
\* a numeric element_id that is the id of no element of the snapshot resolve
\* to success=false and no stop flag, with the message that the element id
\* was not found (followed by the remediation hint for click_element) or that
\* another argument has the wrong type; they make no page call and leave the
\* controller as it was.
C32_StaleIdRefused ==
  (/\ call.applied = "tool"
   /\ call.name \in ElementTools
   /\ StaleElementId)
    => /\ Refused
       /\ call.outcome.result.message.text \in
            {E_NotFound, "text must be a string", "value_or_label must be a string",
             "checked must be a boolean"}
       /\ call.outcome.result.message.text = E_NotFound =>
            call.outcome.result.message.hint =
              (IF call.name = "click_element" THEN M_ClickHint ELSE "")

C32_SelectOnMissingElement ==
  /\ call.applied = "tool"
  /\ call.name = "select_option"
  /\ call.snapshot = SnapshotA
  /\ Arg(call.args, "element_id") = Num(9)
  /\ TypeOf(Arg(call.args, "value_or_label")) = "string"
  /\ Refused
  /\ call.outcome.result.message.text = E_NotFound

(***************************************************************************)
(* click_element against the live document.  The snapshot is captured on   *)
(* dom.doc; the gate and the confirmation run on the snapshot; the click   *)
(* is resolved on dom.live, the document as it is when clickElement runs.  *)
(* The page may change once between any two awaited steps.  dom.events     *)
(* lists the events delivered, each with the element it was delivered to.  *)
(***************************************************************************)
\* k is a or a descendant of a
RECURSIVE Inside(_, _, _)
Inside(doc, a, k) ==
  IF k = a THEN TRUE ELSE IF k <= 1 THEN FALSE ELSE Inside(doc, a, doc[k].parent)

IsLink(node) == node.tag = "a" /\ node.href # NoText

\* el.querySelector('a[href]')
InnerLinkOf(doc, k) ==
  FirstOf(SelectSeq([j \in 1..Len(doc) |-> j],
                    LAMBDA j : j # k /\ Inside(doc, k, j) /\ IsLink(doc[j])))

\* el.closest('a[href]')
RECURSIVE ClosestLink(_, _)
ClosestLink(doc, k) ==
  IF k = NotFound THEN NotFound
  ELSE IF IsLink(doc[k]) THEN k
  ELSE ClosestLink(doc, doc[k].parent)

\* The events dispatched by the page script, before its el.click().
SCRIPT_EVENTS == <<"pointerdown", "pointerup", "mousedown", "mouseup", "click">>

\* The events of a mouse click made by locator.click.
MOUSE_CLICK == <<"pointerdown", "mousedown", "pointerup", "mouseup", "click">>

DeliveredTo(node, types) == [k \in 1..Len(types) |-> [node |-> node, type |-> types[k]]]

ClickFailed == [ok |-> FALSE, events |-> <<>>]

\* clickViaEvaluate(page, selectorDesc, expectedText); page.evaluate rejects
\* when the script throws or when "clickViaEvaluate" is among the failures
clickViaEvaluate(doc, desc, expectedText, fails) ==
  LET textHint == Slice(expectedText, 40)
      hint == Slice(ToLowerCase(Trim(textHint)), 50)
      all == [j \in 1..Len(doc) |-> j]
      shown(c) == ToLowerCase(Trim(RenderedText(doc, c)))
      href(c) == ToLowerCase(doc[c].href)
      hit(c) == \/ shown(c) # <<>> /\ Contains(shown(c), hint)
                \/ href(c) # <<>> /\ Len(hint) >= 5 /\ Contains(href(c), hint)
      findBySelector == ResolveSelector(doc, desc)
      findByText ==
        IF Len(textHint) < 2 THEN NotFound
        ELSE FirstOf(SelectSeq(all, LAMBDA c :
               /\ \/ IsLink(doc[c])
                  \/ doc[c].tag = "button"
                  \/ doc[c].role \in {"button", "link"}
               /\ hit(c)))
      findByDataQa ==
        IF Len(textHint) < 2 THEN NotFound
        ELSE FirstOf(SelectSeq(all, LAMBDA c :
               doc[c].card /\ shown(c) # <<>> /\ Contains(shown(c), hint)))
      found ==
        IF findBySelector # NotFound THEN findBySelector
        ELSE IF textHint = <<>> THEN NotFound
        ELSE IF findByText # NotFound THEN findByText
        ELSE findByDataQa
      el ==
        IF found = NotFound \/ doc[found].tag \in {"a", "button", "input"} THEN found
        ELSE IF InnerLinkOf(doc, found) # NotFound THEN InnerLinkOf(doc, found)
        ELSE IF ClosestLink(doc, found) # NotFound THEN ClosestLink(doc, found)
        ELSE found
  IN  IF "clickViaEvaluate" \in fails \/ el = NotFound THEN ClickFailed
      ELSE [ok |-> TRUE, events |-> DeliveredTo(el, SCRIPT_EVENTS \o <<"click">>)]

\* locator.click(): a mouse click on the element the locator resolves to
LocatorClick(doc, k, name, fails) ==
  IF name \in fails \/ k = NotFound THEN ClickFailed
  ELSE [ok |-> TRUE, events |-> DeliveredTo(k, MOUSE_CLICK)]

\* locator.waitFor({state: 'visible'}) and scrollIntoViewIfNeeded
Located(el, doc) ==
  LET k == ResolveSelector(doc, el.selector)
  IN  k # NotFound /\ ~doc[k].hidden

\* clickElement after the element has been located: the wrapper branch and
\* the three tiers
Activate(el, doc, fails) ==
  LET k == ResolveSelector(doc, el.selector)
      textHint == Slice(Trim(IF el.text # <<>> THEN el.text ELSE el.href), 40)
      script == clickViaEvaluate(doc, el.selector, textHint, fails)
      link == IF k = NotFound THEN NotFound ELSE InnerLinkOf(doc, k)
      inner == IF link = NotFound \/ doc[link].hidden THEN ClickFailed
               ELSE LocatorClick(doc, link, "innerLink.click", fails)
      tier1 == LocatorClick(doc, IF k # NotFound /\ doc[k].hidden THEN NotFound ELSE k,
                            "locator.click", fails)
      tier2 == LocatorClick(doc, k, "locator.click.force", fails)
      chain == IF tier1.ok THEN tier1 ELSE IF tier2.ok THEN tier2 ELSE script
  IN  IF IsWrapper(el) /\ script.ok THEN script
      ELSE IF IsWrapper(el) /\ inner.ok THEN inner
      ELSE chain

T_All == <<"a","l","l">>
T_Open == <<"O","p","e","n">>

Link(text) == [DomNode("a", "", text) EXCEPT !.href = T_Href]

\* Pages before and after a change.
ClickDocuments ==
  { <<Body, Btn(T_PayAll), Btn(T_All)>>,
    <<Body, Btn(T_Cancel), Btn(T_Home)>>,
    <<Body, Btn(T_DeleteAccount), Btn(T_Home)>>,
    <<Body, Btn(NoText), Btn(NoText)>>,
    <<Body, DomNode("div", "button", T_Open), [Link(T_Cancel) EXCEPT !.parent = 2]>>,
    <<Body, DomNode("div", "button", T_Open), [Link(T_Pay) EXCEPT !.parent = 2]>>,
    <<Body, Link(T_PayAll), [DomNode("div", "", T_Home) EXCEPT !.card = TRUE]>> }

ClickFailures == SUBSET {"locator.click", "locator.click.force", "clickViaEvaluate"}

\* The snapshot that getPageSnapshot returns for the captured elements.
SnapshotOf(captured) ==
  [elements |->
     [k \in 1..Len(captured) |->
        [Element(captured[k].id, captured[k].tagName, captured[k].role,
                 captured[k].text, captured[k].disabled)
           EXCEPT !.href = captured[k].href]]]

InitClick ==
  /\ hasConfirm = TRUE
  /\ tracked = FALSE
  /\ oracleLeft = 0
  /\ browser = LaunchedBrowser
  /\ pc = "idle"
  /\ i = 0
  /\ messages = <<>>
  /\ snapshot = NoSnapshot
  /\ response = NoChoice
  /\ result = NoResult
  /\ ret = NoReturn
  /\ confirmCalls = 0
  /\ allowed = "none"
  /\ execCalls = 0
  /\ pageCalls = <<>>
  /\ waited = 0
  /\ snapshotsTaken = 0
  /\ oracleCalls = 0
  /\ approved = FALSE
  /\ call = NoCall
  /\ gate = NoGate
  /\ io = NoReads
  /\ \E doc \in ClickDocuments :
       dom = [NoDom EXCEPT !.doc = doc, !.live = doc, !.phase = "loaded"]

\* snapshot = await browser.getSnapshot()
ClickPerceive ==
  /\ dom.phase = "loaded"
  /\ dom' = [dom EXCEPT !.phase = "captured",
                        !.snap = collectSnapshotScript(dom.doc, {}).elements]
  /\ UNCHANGED <<loop, call, gate, io>>

\* The page re-renders while the agent awaits something else.
PageChanges ==
  /\ dom.phase \in {"captured", "confirm", "execute", "located"}
  /\ ~dom.changed
  /\ \E doc \in ClickDocuments \ {dom.live} :
       dom' = [dom EXCEPT !.live = doc, !.changed = TRUE]
  /\ UNCHANGED <<loop, call, gate, io>>

\* security = checkDestructiveAction('click_element', {element_id}, snapshot)
ClickGate ==
  /\ dom.phase = "captured"
  /\ \E e \in 1..Len(dom.snap) :
       LET security == checkDestructiveAction("click_element",
                                              "element_id" :> Num(dom.snap[e].id),
                                              SnapshotOf(dom.snap))
       IN  dom' = [dom EXCEPT !.target = e, !.verdict = security,
                              !.phase = IF security.destructive /\ hasConfirm
                                          THEN "confirm" ELSE "execute"]
  /\ UNCHANGED <<loop, call, gate, io>>

\* allowed = await getUserConfirmation(description)
ClickConfirm ==
  /\ dom.phase = "confirm"
  /\ \E answer \in BOOLEAN :
       dom' = [dom EXCEPT !.allowed = IF answer THEN "true" ELSE "false",
                          !.phase = IF answer THEN "execute" ELSE "denied"]
  /\ UNCHANGED <<loop, call, gate, io>>

\* clickElement up to `await this.#delay()`
ClickLocate ==
  /\ dom.phase = "execute"
  /\ dom' = [dom EXCEPT !.phase = IF Located(dom.snap[dom.target], dom.live)
                                    THEN "located" ELSE "failed"]
  /\ UNCHANGED <<loop, call, gate, io>>

\* clickElement from the wrapper test on
ClickActivate ==
  /\ dom.phase = "located"
  /\ \E fails \in ClickFailures :
       LET done == Activate(dom.snap[dom.target], dom.live, fails)
       IN  dom' = [dom EXCEPT !.phase = IF done.ok THEN "clicked" ELSE "failed",
                              !.ok = done.ok, !.events = done.events]
  /\ UNCHANGED <<loop, call, gate, io>>

NextClick ==
  ClickPerceive \/ PageChanges \/ ClickGate \/ ClickConfirm \/ ClickLocate \/ ClickActivate

SpecClick == InitClick /\ [][NextClick]_vars

\* The text of element n of the live document as a snapshot would show it
\* matches a destructive pattern.
LiveDestructive(n) ==
  MatchesDestructivePattern(ToLowerCase(DisplayText(dom.live, n)))

\* The elements of the live document that received a click event.
ClickedNodes == {dom.events[k].node : k \in {j \in 1..Len(dom.events) : dom.events[j].type = "click"}}

\* C33: with a confirmation capability, and whatever the page does between
\* perception and execution, a click that clickElement delivers lands on an
\* element showing the text the gate evaluated, and lands on an element whose
\* text matches a destructive pattern only after getUserConfirmation
\* returned true in the cycle.
C33_ClickOnlyOnGatedElement ==
  (hasConfirm /\ dom.phase = "clicked") =>
    \A n \in ClickedNodes :
      /\ LiveDestructive(n) => dom.allowed = "true"
      /\ DisplayText(dom.live, n) = dom.snap[dom.target].text

\* On a page that did not change, the click on the button 'all', which the
\* gate passed without confirmation, was delivered to the button 'Pay all'.
C33_UnconfirmedDestructiveClick ==
  /\ hasConfirm
  /\ dom.phase = "clicked"
  /\ ~dom.changed
  /\ dom.snap[dom.target].text = T_All
  /\ ~dom.verdict.destructive
  /\ dom.allowed = "none"
  /\ \E n \in ClickedNodes : LiveDestructive(n) /\ DisplayText(dom.live, n) = T_PayAll

\* The types of the events delivered by the click, in order.
EventTypes == [k \in 1..Len(dom.events) |-> dom.events[k].type]

\* C34: a click that succeeded delivered its events to one element, and
\* they are either one mouse click or the five events pointerdown, pointerup,
\* mousedown, mouseup, click of the script, once each in that order: exactly
\* one click event reaches the element.
C34_OneClickActivation ==
  dom.phase = "clicked" =>
    /\ \A j, k \in 1..Len(dom.events) : dom.events[j].node = dom.events[k].node
    /\ EventTypes \in {MOUSE_CLICK, SCRIPT_EVENTS}
    /\ Cardinality({k \in 1..Len(dom.events) : dom.events[k].type = "click"}) = 1

\* Both locator clicks failed on a plain button and the script-level click
\* succeeded: the button received the five events and then a second click.
C34_ClickedTwice ==
  /\ dom.phase = "clicked"
  /\ ~dom.changed
  /\ ~IsWrapper(dom.snap[dom.target])
  /\ EventTypes = SCRIPT_EVENTS \o <<"click">>
  /\ \A k \in 1..Len(dom.events) : dom.events[k].node = dom.snap[dom.target].node

\* Keywords of DESTRUCTIVE_PATTERNS that are not English, each one a whole
\* word, and English ones.
NonEnglishKeywords == {T_Udalit, T_Oplatit, T_Podtverdit}
EnglishKeywords == {ToLowerCase(T_Pay), ToLowerCase(T_Buy), ToLowerCase(T_Unsubscribe)}

\* C35: a click on an element whose text is a non-English keyword of the
\* pattern table standing as a whole word is classified destructive, as a
\* click on an element whose text is an English keyword is.
C35_NonEnglishKeywordsDestructive ==
  (GatedClick /\ Surface(GatedElement) \in NonEnglishKeywords \cup EnglishKeywords)
    => call.verdict.destructive

\* The button удалить of the second page is not destructive.
C35_UdalitNotDestructive ==
  /\ GatedClick
  /\ call.snapshot = SnapshotB
  /\ GatedElement.text = T_Udalit
  /\ T_Udalit \in Alternatives
  /\ ~call.verdict.destructive

CanonicalTags == {"a", "button", "input", "textarea", "select"}

\* The elements of the document that the snapshot holds.
RecordedNodes == {dom.snap[e].node : e \in 1..Len(dom.snap)}

\* Element j passes the tests that walk makes before it records an element,
\* and no element before it has its key.
Recordable(doc, j) ==
  /\ MatchesInteractive(doc[j])
  /\ ~SkippedAsSmall(doc, j)
  /\ ~doc[j].hidden
  /\ \A h \in 1..(j - 1) : SeenKey(doc, h) # SeenKey(doc, j)

\* A div or span with an interactive role.
RoleContainer(node) == node.tag \in {"div", "span"} /\ node.role \in InteractiveRoles

\* C36: in a snapshot below the cap, nothing inside a recorded a, button,
\* input, textarea or select is recorded, and every child of a recorded div
\* or span with an interactive role (button and link included) that passes
\* the tests of the walk is recorded too.
C36_ContainersDescended ==
  (dom.phase = "captured" /\ Len(dom.snap) < MAX_ELEMENTS) =>
    \A k \in RecordedNodes :
      /\ dom.doc[k].tag \in CanonicalTags =>
           \A j \in RecordedNodes : j # k => ~Inside(dom.doc, k, j)
      /\ RoleContainer(dom.doc[k]) =>
           \A j \in 1..Len(dom.doc) :
             (dom.doc[j].parent = k /\ Recordable(dom.doc, j)) => j \in RecordedNodes

\* A button inside a div with role=button is left out of the snapshot.
C36_ButtonRoleNotDescended ==
  /\ dom.phase = "captured"
  /\ Len(dom.doc) = 3
  /\ dom.doc[2].tag = "div" /\ dom.doc[2].role = "button"
  /\ dom.doc[3] = [Btn(T_Pay) EXCEPT !.parent = 2]
  /\ Recordable(dom.doc, 3)
  /\ RecordedNodes = {2}

\* C37: whatever the seconds argument of wait is (missing, not a number,
\* zero, negative, not an integer, larger than 10), the call resolves to
\* success without a stop flag after a timer of at least 1 and at most 10
\* seconds, makes no page call and leaves the controller as it was.
C37_WaitWithinBounds ==
  (call.applied = "tool" /\ call.name = "wait") =>
    LET out == call.outcome
    IN  /\ ~out.threw
        /\ out.result.success /\ ~out.result.stop
        /\ out.waited \in Millis(Num(WAIT_MIN))..Millis(Num(WAIT_MAX))
        /\ out.result.message.arg.t = "number"
        /\ Millis(out.result.message.arg) = out.waited
        /\ out.trace = <<>>
        /\ out.browser = call.browser

\* wait(12) waited 10 seconds.
C37_LongWaitClamped ==
  /\ call.applied = "tool"
  /\ call.name = "wait"
  /\ Arg(call.args, "seconds") = Num(12)
  /\ call.outcome.result.success
  /\ call.outcome.waited = Millis(Num(WAIT_MAX))

=============================================================================
